---- MODULE Spec2Model ----
(***************************************************************************)
(* State-machine model of the Todoapp client: the entity data hooks        *)
(* (useTodos, useInternetRecords), the usage-record form of the            *)
(* office-aware InternetMonitoringPage, the pre-backend localStorage App,  *)
(* and the hosted backend tables with their row-level policies.            *)
(*                                                                         *)
(* One browser tab is modelled in full (its hook state, its requests and   *)
(* responses in flight, its realtime callback).  A second tab of the same  *)
(* application in the same browser (so of the same signed-in user) is the  *)
(* environment: it runs the same hook code against the same backend, so it *)
(* appears as backend writes of the shapes that code produces (the         *)
(* OtherTab... actions).                                                   *)
(*                                                                         *)
(* A remote call is two steps: the call step runs the handler up to its    *)
(* await and the statement at the backend (one single-statement remote     *)
(* call), leaving the response in flight; the done step runs the rest of   *)
(* the handler when the response arrives.  Responses arrive in any order.  *)
(*                                                                         *)
(* A behaviour exercises one page (view): the task list, the usage-record  *)
(* page or the localStorage App.  The hooks of different pages share no    *)
(* state besides the signed-in user.                                       *)
(***************************************************************************)
EXTENDS Integers, Sequences, FiniteSets, Bags, TLC

\* ---------------------------------------------------------------- bounds
MaxRows == 2        \* identifiers the backend hands out per behaviour
MaxCalls == 3       \* operations started per behaviour (this tab and the other)
MaxTime == 1        \* distinct client clock readings (new Date())
MaxAdminCalls == 2  \* operations started per behaviour of the admin panel
MaxEvents == 2      \* sign-ins and sign-outs per behaviour of the session manager
MaxClock == 2       \* minutes that pass per behaviour of the session manager
TokenLifetime == 6  \* minutes a session token lives once the auth service issued it
MaxDay == 9         \* calendar days the date filter is tried on (0..MaxDay)
MaxTasks == 3       \* tasks in the list the progress chart is computed from

\* ------------------------------------------------------------- constants
Users == {"u1", "u2"}
NoUser == "none"                 \* userId === null
NoTime == 0                      \* completed_at IS NULL / completedAt undefined
Times == 1..MaxTime
NoId == 0
NoErr == ""                      \* error === null
JWTExpired == "JWT expired"
NoRows == "JSON object requested, multiple (or no) rows returned"
ErrKinds == {JWTExpired}        \* ways a remote call fails before reaching a table
Views == {"tasks", "internet", "local"}

VARIABLES
  view,        \* the page this behaviour exercises
  userId,      \* the hook's userId argument (user?.id || null)
  dbTodos,     \* backend table todos: a set of rows
  nextId,      \* next identifier the backend (or randomUUID) hands out
  todos,       \* useTodos state `todos` / localStorage App state `todos`
  loading,     \* hook state `loading`
  error,       \* hook state `error`
  net,         \* bag of the tab's remote calls in flight
  notif,       \* a realtime callback of the tab's subscription is pending
  outcome,     \* how the tab's last completed create/update call ended
  calls,       \* hook operations the tab has started
  dbRecords,   \* backend table internet_records: a set of rows
  records,     \* useInternetRecords state `records`
  editingId,   \* InternetMonitoringPage state `editingId`
  actionError, \* InternetMonitoringPage state `actionError`
  profiles,    \* backend table user_profiles: the admin flags of each account
  auditLogs,   \* backend table audit_logs, in insertion order
  deletedRecords, \* backend table deleted_records: a set of rows
  admin,       \* the state of useAdminData (users, auditLogs, ..., loading, error)
  adminStep,   \* where loadAdminData stands: mount, checking, fetching, done
  restoring,   \* AdminPage state `restoring`
  deleting,    \* AdminPage state `deleting`
  lastCall,    \* the last statement or rpc call the backend served, and for whom
  authState,   \* the state of useSupabaseAuth (user, loading, error, sessionChecked)
  backup,      \* localStorage item 'supabase-session'
  client,      \* the session the auth client holds (shared by the browser's tabs)
  authStep,    \* where getInitialSession stands: mount, getSession, refresh, done
  events,      \* session-change events not yet handed to the hook's listener
  lastEvent,   \* the event and session the listener was last called with
  clock,       \* Date.now(), in minutes
  timerDue,    \* the auto-refresh effect has to run again (its dependencies changed)
  dateFilter,  \* App state `dateFilter`
  filterTodo,  \* the task the filter is applied to
  filterNow,   \* new Date() as matchesDateFilter reads it
  shown,       \* whether filteredTodos keeps the task
  overdue,     \* TodoItem's `overdue` as last rendered for the task
  progressData, \* App's `progressData` as last computed
  login        \* AdminLoginPage: where handleSubmit stands, isLoading, error

NoCall == [caller |-> NoUser, call |-> "", table |-> "", rows |-> {}]

\* the admin variant of the backend and the admin panel
adminVars == <<profiles, auditLogs, deletedRecords, admin, adminStep, restoring,
               deleting, lastCall>>

\* the state of the pages that the task list, the usage-record page and the
\* localStorage App never touch
\* the session manager
authVars == <<authState, backup, client, authStep, events, lastEvent, clock, timerDue>>

\* the task list's date filter
filterVars == <<dateFilter, filterTodo, filterNow, shown, overdue, progressData>>

\* the admin login page
loginVars == <<login>>

extVars == <<adminVars, authVars, filterVars, loginVars>>

vars == <<view, userId, dbTodos, nextId, todos, loading, error, net, notif,
          outcome, calls, dbRecords, records, editingId, actionError, extVars>>

\* the state of the usage-record page, which the task list never touches
internetVars == <<dbRecords, records, editingId, actionError>>

\* ------------------------------------------------------------- helpers
SeqToSet(s) == {s[i] : i \in 1..Len(s)}

MapSeq(F(_), s) == [i \in 1..Len(s) |-> F(s[i])]

\* todos ordered by created_at descending (.order('created_at', { ascending: false }))
RECURSIVE OrderByCreatedAtDesc(_)
OrderByCreatedAtDesc(rows) ==
  IF rows = {} THEN <<>>
  ELSE LET r == CHOOSE x \in rows : \A y \in rows : y.created_at <= x.created_at
       IN <<r>> \o OrderByCreatedAtDesc(rows \ {r})

NoUpd == [none |-> TRUE]

\* a remote call: the closure's userId (also the subject of its token), the
\* row identifier and payload it sends, the rows and the error it gets back
Msg(kind, uid, id, upd) ==
  [kind |-> kind, uid |-> uid, id |-> id, upd |-> upd, data |-> <<>>, err |-> NoErr,
   via |-> "hook"]

\* the same call, made by branch `via` of the form's handleSubmit
MsgVia(kind, uid, id, upd, via) == [Msg(kind, uid, id, upd) EXCEPT !.via = via]

Reply(m, data, err) == [m EXCEPT !.data = data, !.err = err]

CanCall == calls < MaxCalls
Send(m) == net (+) SetToBag({m})
Remove(m) == net (-) SetToBag({m})

\* ---------------------------------------------------------- useTodos.ts
convertRowToTodo(row) ==
  [id |-> row.id,
   completed |-> row.completed,
   createdAt |-> row.created_at,
   completedAt |-> IF row.completed_at # NoTime THEN row.completed_at ELSE NoTime]

TodoInsertData(uid) == [user_id |-> uid, completed |-> FALSE]

\* toggling sets the timestamp but never clears it
TodoUpdateData_KeepsTimestamp(todo, now) ==
  [completed |-> ~todo.completed, completed_at |-> now]

TodoUpdateData(todo, now) ==
  [completed |-> ~todo.completed,
   completed_at |-> IF ~todo.completed THEN now ELSE NoTime]

FindTodo(id) == CHOOSE t \in SeqToSet(todos) : t.id = id

\* err instanceof Error ? err.message : fallback
IsError(err) == TRUE
ErrorText(err, fallback) == IF IsError(err) THEN err ELSE fallback

\* a delete policy that lets every authenticated caller delete every row
TodosDeletePolicy_Anyone(row, auth) == TRUE

\* row-level policies of table todos
TodosSelectPolicy(row, auth) == auth = row.user_id
TodosInsertPolicy(row, auth) == auth = row.user_id
TodosUpdatePolicy(row, auth) == auth = row.user_id
TodosDeletePolicy(row, auth) == auth = row.user_id

\* the realtime channel of the tab: filter user_id=eq.${userId}
Subscribed(u) == userId # NoUser /\ userId = u

\* ------------------------------------------------ backend: table todos
TodoRow(id, ins) ==
  [id |-> id, user_id |-> ins.user_id, completed |-> ins.completed,
   completed_at |-> NoTime, created_at |-> id]

\* select * from todos where user_id = uid order by created_at desc
ServerFetchTodos(m) ==
  LET rows == {r \in dbTodos : r.user_id = m.uid /\ TodosSelectPolicy(r, m.uid)}
  IN net' = Send(Reply(m, OrderByCreatedAtDesc(rows), NoErr))

\* insert into todos ... returning *
ServerInsertTodo(m) ==
  /\ nextId <= MaxRows
  /\ LET row == TodoRow(nextId, m.upd)
     IN /\ TodosInsertPolicy(row, m.uid)
        /\ dbTodos' = dbTodos \cup {row}
        /\ nextId' = nextId + 1
        /\ net' = Send(Reply(m, <<row>>, NoErr))
        /\ notif' = (notif \/ Subscribed(row.user_id))

\* update todos set ... where id = id returning * (.single())
ServerUpdateTodo(m) ==
  LET hit == {r \in dbTodos : r.id = m.id /\ TodosUpdatePolicy(r, m.uid)}
  IN IF hit = {}
     THEN /\ net' = Send(Reply(m, <<>>, NoRows))
          /\ UNCHANGED <<dbTodos, notif>>
     ELSE LET old == CHOOSE r \in hit : TRUE
              new == [old EXCEPT !.completed = m.upd.completed,
                                 !.completed_at = m.upd.completed_at]
          IN /\ dbTodos' = (dbTodos \ {old}) \cup {new}
             /\ net' = Send(Reply(m, <<new>>, NoErr))
             /\ notif' = (notif \/ Subscribed(new.user_id))

\* delete from todos where id = id
ServerDeleteTodo(m) ==
  LET hit == {r \in dbTodos : r.id = m.id /\ TodosDeletePolicy(r, m.uid)}
  IN /\ dbTodos' = dbTodos \ hit
     /\ net' = Send(Reply(m, <<>>, NoErr))
     /\ notif' = (notif \/ \E r \in hit : Subscribed(r.user_id))

\* the call fails remotely (expired token, transport failure): no row changes
ServerError(m, e) == net' = Send(Reply(m, <<>>, e))

\* ------------------------------------- useTodos.ts: up to the await
\* body of fetchTodos up to the response
FetchTodosCall(uid) ==
  IF uid = NoUser
  THEN /\ todos' = <<>>
       /\ loading' = FALSE
       /\ net' = net
  ELSE /\ loading' = TRUE
       /\ todos' = todos
       /\ LET m == Msg("fetchTodos", uid, NoId, NoUpd)
          IN ServerFetchTodos(m) \/ \E e \in ErrKinds : ServerError(m, e)

\* the effect on [userId] when a user signs in: fetchTodos() and subscribe
SignIn(u) ==
  /\ view = "tasks"
  /\ userId = NoUser
  /\ CanCall
  /\ calls' = calls + 1
  /\ userId' = u
  /\ notif' = FALSE
  /\ FetchTodosCall(u)
  /\ UNCHANGED <<view, extVars, dbTodos, nextId, error, outcome, internetVars>>

\* the effect on [userId] when the user signs out: cleanup (unsubscribe),
\* then the early return of the effect body
SignOut ==
  /\ view = "tasks"
  /\ userId # NoUser
  /\ userId' = NoUser
  /\ notif' = FALSE
  /\ UNCHANGED <<internetVars, calls, view, extVars, dbTodos, nextId, todos, loading, error, net, outcome>>

\* the postgres_changes callback: fetchTodos()
RealtimeCallback ==
  /\ view = "tasks"
  /\ notif
  /\ CanCall
  /\ calls' = calls + 1
  /\ notif' = FALSE
  /\ FetchTodosCall(userId)
  /\ UNCHANGED <<view, extVars, userId, dbTodos, nextId, error, outcome, internetVars>>

AddTodoCall ==
  /\ view = "tasks"
  /\ userId # NoUser
  /\ CanCall
  /\ calls' = calls + 1
  /\ LET m == Msg("addTodo", userId, NoId, TodoInsertData(userId))
     IN \/ ServerInsertTodo(m)
        \/ \E e \in ErrKinds : ServerError(m, e) /\ UNCHANGED <<dbTodos, nextId, notif>>
  /\ UNCHANGED <<view, extVars, userId, todos, loading, error, outcome, internetVars>>

ToggleTodoCall(id, now) ==
  /\ view = "tasks"
  /\ userId # NoUser
  /\ CanCall
  /\ calls' = calls + 1
  /\ \E t \in SeqToSet(todos) : t.id = id
  /\ LET m == Msg("toggleTodo", userId, id, TodoUpdateData(FindTodo(id), now))
     IN \/ ServerUpdateTodo(m)
        \/ \E e \in ErrKinds : ServerError(m, e) /\ UNCHANGED <<dbTodos, notif>>
  /\ UNCHANGED <<view, extVars, userId, nextId, todos, loading, error, outcome, internetVars>>

DeleteTodoCall(id) ==
  /\ view = "tasks"
  /\ userId # NoUser
  /\ CanCall
  /\ calls' = calls + 1
  /\ \E t \in SeqToSet(todos) : t.id = id
  /\ LET m == Msg("deleteTodo", userId, id, NoUpd)
     IN \/ ServerDeleteTodo(m)
        \/ \E e \in ErrKinds : ServerError(m, e) /\ UNCHANGED <<dbTodos, notif>>
  /\ UNCHANGED <<view, extVars, userId, nextId, todos, loading, error, outcome, internetVars>>

\* --------------------------------- useTodos.ts: after the await resolves
FetchTodosDone(m) ==
  /\ m.kind = "fetchTodos"
  /\ net' = Remove(m)
  /\ IF m.err = NoErr
     THEN /\ todos' = MapSeq(convertRowToTodo, m.data)
          /\ error' = NoErr
     ELSE /\ todos' = todos
          /\ error' = ErrorText(m.err, "Failed to fetch todos")
  /\ loading' = FALSE
  /\ UNCHANGED <<internetVars, calls, view, extVars, userId, dbTodos, nextId, notif, outcome>>

\* no catch block of the hook rethrows
Rethrows_Never(kind) == FALSE

\* `throw err` closes the catch blocks of addRecord, updateRecord and
\* deleteRecord; the catch blocks of useTodos end after setError
Rethrows(kind) == kind \in {"addRecord", "updateRecord", "selectRecord", "deleteRecord"}

\* how a failed hook call ends for its caller
FailureOutcome(kind) == IF Rethrows(kind) THEN "threw" ELSE "returned"

AddTodoDone(m) ==
  /\ m.kind = "addTodo"
  /\ net' = Remove(m)
  /\ IF m.err = NoErr
     THEN /\ todos' = <<convertRowToTodo(m.data[1])>> \o todos
          /\ error' = NoErr
     ELSE /\ todos' = todos
          /\ error' = ErrorText(m.err, "Failed to add todo")
  /\ outcome' = IF m.err = NoErr THEN "returned" ELSE FailureOutcome(m.kind)
  /\ UNCHANGED <<internetVars, calls, view, extVars, userId, dbTodos, nextId, loading, notif>>

ToggleTodoDone(m) ==
  /\ m.kind = "toggleTodo"
  /\ net' = Remove(m)
  /\ IF m.err = NoErr
     THEN /\ todos' = [i \in 1..Len(todos) |->
                        IF todos[i].id = m.id THEN convertRowToTodo(m.data[1])
                        ELSE todos[i]]
          /\ error' = NoErr
     ELSE /\ todos' = todos
          /\ error' = ErrorText(m.err, "Failed to update todo")
  /\ outcome' = IF m.err = NoErr THEN "returned" ELSE FailureOutcome(m.kind)
  /\ UNCHANGED <<internetVars, calls, view, extVars, userId, dbTodos, nextId, loading, notif>>

DeleteTodoDone(m) ==
  /\ m.kind = "deleteTodo"
  /\ net' = Remove(m)
  /\ IF m.err = NoErr
     THEN /\ todos' = SelectSeq(todos, LAMBDA t : t.id # m.id)
          /\ error' = NoErr
     ELSE /\ todos' = todos
          /\ error' = ErrorText(m.err, "Failed to delete todo")
  /\ outcome' = IF m.err = NoErr THEN "returned" ELSE FailureOutcome(m.kind)
  /\ UNCHANGED <<internetVars, calls, view, extVars, userId, dbTodos, nextId, loading, notif>>

\* ------------------------------------------ the other tab (environment)
OtherTabAddTodo ==
  /\ view = "tasks"
  /\ CanCall
  /\ calls' = calls + 1
  /\ userId # NoUser
  /\ nextId <= MaxRows
  /\ dbTodos' = dbTodos \cup {TodoRow(nextId, TodoInsertData(userId))}
  /\ nextId' = nextId + 1
  /\ notif' = TRUE
  /\ UNCHANGED <<internetVars, view, extVars, userId, todos, loading, error, net, outcome>>

\* the other tab toggles from its own (possibly stale) copy of the task
OtherTabToggleTodo(r, seen, now) ==
  /\ view = "tasks"
  /\ CanCall
  /\ calls' = calls + 1
  /\ r \in dbTodos
  /\ TodosUpdatePolicy(r, userId)
  /\ LET upd == TodoUpdateData([completed |-> seen], now)
     IN dbTodos' = (dbTodos \ {r}) \cup
                   {[r EXCEPT !.completed = upd.completed,
                              !.completed_at = upd.completed_at]}
  /\ notif' = (notif \/ Subscribed(r.user_id))
  /\ UNCHANGED <<internetVars, view, extVars, userId, nextId, todos, loading, error, net, outcome>>

OtherTabDeleteTodo(r) ==
  /\ view = "tasks"
  /\ CanCall
  /\ calls' = calls + 1
  /\ r \in dbTodos
  /\ TodosDeletePolicy(r, userId)
  /\ dbTodos' = dbTodos \ {r}
  /\ notif' = (notif \/ Subscribed(r.user_id))
  /\ UNCHANGED <<internetVars, view, extVars, userId, nextId, todos, loading, error, net, outcome>>

\* ------------------------------------- App.tsx: the localStorage variant
LocalAddTodo(now) ==
  /\ view = "local"
  /\ nextId <= MaxRows
  /\ todos' = <<[id |-> nextId, completed |-> FALSE, createdAt |-> now,
                 completedAt |-> NoTime]>> \o todos
  /\ nextId' = nextId + 1
  /\ UNCHANGED <<view, extVars, userId, dbTodos, loading, error, net, notif, outcome, calls, internetVars>>

\* the toggled task stamped whichever way it was toggled
LocalToggledTodo_AlwaysStamped(todo, now) ==
  [todo EXCEPT !.completed = ~todo.completed, !.completedAt = now]

LocalToggledTodo(todo, now) ==
  [todo EXCEPT !.completed = ~todo.completed,
               !.completedAt = IF ~todo.completed THEN now ELSE NoTime]

LocalToggleTodo(id, now) ==
  /\ view = "local"
  /\ \E t \in SeqToSet(todos) : t.id = id
  /\ todos' = [i \in 1..Len(todos) |->
                 IF todos[i].id = id THEN LocalToggledTodo(todos[i], now) ELSE todos[i]]
  /\ UNCHANGED <<view, extVars, userId, dbTodos, nextId, loading, error, net, notif, outcome, calls, internetVars>>

LocalDeleteTodo(id) ==
  /\ view = "local"
  /\ \E t \in SeqToSet(todos) : t.id = id
  /\ todos' = SelectSeq(todos, LAMBDA t : t.id # id)
  /\ UNCHANGED <<view, extVars, userId, dbTodos, nextId, loading, error, net, notif, outcome, calls, internetVars>>

\* ------------------------------------------------ strings and numbers
\* A string is a sequence of one-character strings.  Amounts are whole
\* numbers of the smallest unit the form accepts (step 0.01).
ToLowerChar(c) == IF c = "H" THEN "h" ELSE IF c = "Q" THEN "q" ELSE c
toLowerCase(str) == [i \in 1..Len(str) |-> ToLowerChar(str[i])]

RECURSIVE TrimStart(_)
TrimStart(str) ==
  IF str # <<>> /\ Head(str) = " " THEN TrimStart(Tail(str)) ELSE str

RECURSIVE TrimEnd(_)
TrimEnd(str) ==
  IF str # <<>> /\ str[Len(str)] = " " THEN TrimEnd(SubSeq(str, 1, Len(str) - 1))
  ELSE str

trim(str) == TrimEnd(TrimStart(str))

Digits == {"0", "1", "2", "3", "4", "5", "6", "7", "8", "9"}
DigitVal(c) ==
  CASE c = "0" -> 0 [] c = "1" -> 1 [] c = "2" -> 2 [] c = "3" -> 3 [] c = "4" -> 4
    [] c = "5" -> 5 [] c = "6" -> 6 [] c = "7" -> 7 [] c = "8" -> 8 [] c = "9" -> 9

\* value of the longest prefix of digits of str, given the value acc so far
RECURSIVE DigitsValue(_, _)
DigitsValue(str, acc) ==
  IF str # <<>> /\ Head(str) \in Digits
  THEN DigitsValue(Tail(str), 10 * acc + DigitVal(Head(str)))
  ELSE acc

NaN == [nan |-> TRUE, val |-> 0]
Num(n) == [nan |-> FALSE, val |-> n]
isNaN(x) == x.nan

\* parseFloat: leading blanks, an optional sign, then digits; NaN without digits
parseFloat(str) ==
  LET t == TrimStart(str)
      neg == t # <<>> /\ Head(t) = "-"
      u == IF t # <<>> /\ Head(t) \in {"-", "+"} THEN Tail(t) ELSE t
  IN IF u = <<>> \/ Head(u) \notin Digits THEN NaN
     ELSE Num(IF neg THEN 0 - DigitsValue(u, 0) ELSE DigitsValue(u, 0))

\* ------------------------------------------------ useInternetRecords.ts
convertRowToRecord(row) ==
  [id |-> row.id, date |-> row.date, startBalance |-> row.start_balance,
   endBalance |-> row.end_balance, usage |-> row.usage,
   workHours |-> row.work_hours, office |-> row.office]

\* handleJWTExpired: does this error force supabase.auth.signOut()?
IsJWTExpired(err) == err = JWTExpired

RecordInsertData(uid, recordData) ==
  [user_id |-> uid, date |-> recordData.date,
   start_balance |-> recordData.startBalance,
   end_balance |-> recordData.endBalance,
   usage |-> recordData.startBalance - recordData.endBalance,
   work_hours |-> recordData.workHours, office |-> recordData.office]

\* updates: the supplied fields (has) and their values; the result names the
\* columns the update sets (cols) and their values
RecordUpdateData(id, updates) ==
  LET found == {r \in SeqToSet(records) : r.id = id}
      touches == "startBalance" \in updates.has \/ "endBalance" \in updates.has
      record == CHOOSE r \in found : TRUE
      startBalance == IF "startBalance" \in updates.has THEN updates.startBalance
                      ELSE record.startBalance
      endBalance == IF "endBalance" \in updates.has THEN updates.endBalance
                    ELSE record.endBalance
  IN [cols |-> (IF "date" \in updates.has THEN {"date"} ELSE {})
            \cup (IF "startBalance" \in updates.has THEN {"start_balance"} ELSE {})
            \cup (IF "endBalance" \in updates.has THEN {"end_balance"} ELSE {})
            \cup (IF "workHours" \in updates.has THEN {"work_hours"} ELSE {})
            \cup (IF "office" \in updates.has /\ updates.office # <<>> THEN {"office"} ELSE {})
            \cup (IF touches /\ found # {} THEN {"usage"} ELSE {}),
      date |-> updates.date, start_balance |-> updates.startBalance,
      end_balance |-> updates.endBalance, work_hours |-> updates.workHours,
      office |-> updates.office,
      usage |-> IF touches /\ found # {} THEN startBalance - endBalance ELSE 0]

\* row-level policies of table internet_records
RecordsSelectPolicy(row, auth) == auth = row.user_id
RecordsInsertPolicy(row, auth) == auth = row.user_id
RecordsUpdatePolicy(row, auth) == auth = row.user_id
RecordsDeletePolicy(row, auth) == auth = row.user_id

\* unique index internet_records_user_date_office_unique (user_id, date, office)
UniqueKey(row) == <<row.user_id, row.date, row.office>>
DupKey == "duplicate key value violates unique constraint"

RecordRow(id, ins) ==
  [id |-> id, user_id |-> ins.user_id, date |-> ins.date,
   start_balance |-> ins.start_balance, end_balance |-> ins.end_balance,
   usage |-> ins.usage, work_hours |-> ins.work_hours, office |-> ins.office]

\* the orders in which a query ordered by date descending may return rows
OrderedByDateDesc(rows) ==
  {q \in [1..Cardinality(rows) -> rows] :
     /\ \A i, j \in 1..Cardinality(rows) : i # j => q[i] # q[j]
     /\ \A i, j \in 1..Cardinality(rows) : i < j => q[i].date >= q[j].date}

\* select * from internet_records where user_id = uid order by date desc
ServerFetchRecords(m) ==
  LET rows == {r \in dbRecords : r.user_id = m.uid /\ RecordsSelectPolicy(r, m.uid)}
  IN \E q \in OrderedByDateDesc(rows) : net' = Send(Reply(m, q, NoErr))

\* insert into internet_records ... returning *
ServerInsertRecord(m) ==
  /\ nextId <= MaxRows
  /\ LET row == RecordRow(nextId, m.upd)
     IN /\ RecordsInsertPolicy(row, m.uid)
        /\ IF \E r \in dbRecords : UniqueKey(r) = UniqueKey(row)
           THEN /\ net' = Send(Reply(m, <<>>, DupKey))
                /\ UNCHANGED <<dbRecords, nextId, notif>>
           ELSE /\ dbRecords' = dbRecords \cup {row}
                /\ nextId' = nextId + 1
                /\ net' = Send(Reply(m, <<row>>, NoErr))
                /\ notif' = (notif \/ Subscribed(row.user_id))

ApplyRecordUpdate(old, upd) ==
  [old EXCEPT
     !.date = IF "date" \in upd.cols THEN upd.date ELSE @,
     !.start_balance = IF "start_balance" \in upd.cols THEN upd.start_balance ELSE @,
     !.end_balance = IF "end_balance" \in upd.cols THEN upd.end_balance ELSE @,
     !.work_hours = IF "work_hours" \in upd.cols THEN upd.work_hours ELSE @,
     !.office = IF "office" \in upd.cols THEN upd.office ELSE @,
     !.usage = IF "usage" \in upd.cols THEN upd.usage ELSE @]

\* update internet_records set ... where id = id returning * (.single())
ServerUpdateRecord(m) ==
  LET hit == {r \in dbRecords : r.id = m.id /\ RecordsUpdatePolicy(r, m.uid)}
  IN IF hit = {}
     THEN /\ net' = Send(Reply(m, <<>>, NoRows))
          /\ UNCHANGED <<dbRecords, notif>>
     ELSE LET old == CHOOSE r \in hit : TRUE
              new == ApplyRecordUpdate(old, m.upd)
          IN IF \E r \in dbRecords \ {old} : UniqueKey(r) = UniqueKey(new)
             THEN /\ net' = Send(Reply(m, <<>>, DupKey))
                  /\ UNCHANGED <<dbRecords, notif>>
             ELSE /\ dbRecords' = (dbRecords \ {old}) \cup {new}
                  /\ net' = Send(Reply(m, <<new>>, NoErr))
                  /\ notif' = (notif \/ Subscribed(new.user_id))

\* select id, user_id from internet_records where id = id and user_id = uid (.single())
ServerSelectRecord(m) ==
  LET hit == {r \in dbRecords : r.id = m.id /\ r.user_id = m.uid
                                /\ RecordsSelectPolicy(r, m.uid)}
  IN IF hit = {} THEN net' = Send(Reply(m, <<>>, NoRows))
     ELSE \E r \in hit : net' = Send(Reply(m, <<r>>, NoErr))

\* delete from internet_records where id = id and user_id = uid
ServerDeleteRecord(m) ==
  LET hit == {r \in dbRecords : r.id = m.id /\ r.user_id = m.uid
                                /\ RecordsDeletePolicy(r, m.uid)}
  IN /\ dbRecords' = dbRecords \ hit
     /\ notif' = (notif \/ \E r \in hit : Subscribed(r.user_id))

\* ---------------------------------- useInternetRecords.ts: hook steps
\* the page (and the hook in it) is rendered only while a user is signed in;
\* signing out unmounts it and discards its state and its continuations
Unmounted ==
  /\ userId' = NoUser
  /\ records' = <<>>
  /\ loading' = TRUE
  /\ error' = NoErr
  /\ editingId' = NoId
  /\ actionError' = NoErr
  /\ notif' = FALSE
  /\ net' = EmptyBag

\* body of fetchRecords up to the response
FetchRecordsCall(uid) ==
  IF uid = NoUser
  THEN /\ records' = <<>>
       /\ loading' = FALSE
       /\ net' = net
  ELSE /\ loading' = TRUE
       /\ records' = records
       /\ LET m == Msg("fetchRecords", uid, NoId, NoUpd)
          IN ServerFetchRecords(m) \/ \E e \in ErrKinds : ServerError(m, e)

\* the user signs in and opens the usage-record page: the hook mounts, its
\* effect calls fetchRecords() and subscribes
MountInternetPage(u) ==
  /\ view = "internet"
  /\ userId = NoUser
  /\ CanCall
  /\ calls' = calls + 1
  /\ userId' = u
  /\ notif' = FALSE
  /\ FetchRecordsCall(u)
  /\ UNCHANGED <<view, extVars, dbTodos, nextId, todos, error, outcome, dbRecords,
                 editingId, actionError>>

\* the user signs out from the side navigation
LogoutInternetPage ==
  /\ view = "internet"
  /\ userId # NoUser
  /\ Unmounted
  /\ UNCHANGED <<view, extVars, dbTodos, nextId, todos, outcome, calls, dbRecords>>

\* the postgres_changes callback: fetchRecords()
RecordsRealtimeCallback ==
  /\ view = "internet"
  /\ notif
  /\ CanCall
  /\ calls' = calls + 1
  /\ notif' = FALSE
  /\ FetchRecordsCall(userId)
  /\ UNCHANGED <<view, extVars, userId, dbTodos, nextId, todos, error, outcome, dbRecords,
                 editingId, actionError>>

FetchRecordsDone(m) ==
  /\ m.kind = "fetchRecords"
  /\ IF m.err = NoErr
     THEN /\ records' = MapSeq(convertRowToRecord, m.data)
          /\ error' = NoErr
          /\ loading' = FALSE
          /\ net' = Remove(m)
          /\ UNCHANGED <<userId, notif, editingId, actionError>>
     ELSE IF IsJWTExpired(m.err)
     THEN Unmounted
     ELSE /\ error' = ErrorText(m.err, "Failed to fetch records")
          /\ loading' = FALSE
          /\ net' = Remove(m)
          /\ UNCHANGED <<userId, notif, records, editingId, actionError>>
  /\ UNCHANGED <<view, extVars, dbTodos, nextId, todos, outcome, calls, dbRecords>>

\* ------------------------------- InternetMonitoringPage (office-aware)
normalizeOfficeName(officeName) == toLowerCase(trim(officeName))

\* office names compared as typed
officeNamesMatch_CaseSensitive(office1, office2) == trim(office1) = trim(office2)

officeNamesMatch(office1, office2) ==
  normalizeOfficeName(office1) = normalizeOfficeName(office2)

InvalidNumbers == "Please enter valid numbers for all balance and work hours fields"
StartBelowEnd == "Start balance should be greater than or equal to end balance"
NoOffice == "Please specify an office"
UpdatedExisting == "Updated existing record"
NotFoundOrDenied == "Record not found or access denied"

\* records.find(...): the first record of the local collection that passes
FirstMatch(date, office) ==
  LET hits == {i \in 1..Len(records) :
                 records[i].date = date /\ officeNamesMatch(records[i].office, office)}
  IN IF hits = {} THEN NoId
     ELSE records[CHOOSE i \in hits : \A j \in hits : i <= j].id

\* the updates object that handleSubmit passes to updateRecord
SubmitUpdates(date, startBalance, endBalance, workHours, office) ==
  [has |-> {"date", "startBalance", "endBalance", "workHours", "office", "notes"},
   date |-> date, startBalance |-> startBalance, endBalance |-> endBalance,
   workHours |-> workHours, office |-> office]

\* updateRecord up to the response
UpdateRecordCall(id, updates, via) ==
  LET m == MsgVia("updateRecord", userId, id, RecordUpdateData(id, updates), via)
  IN \/ ServerUpdateRecord(m) /\ UNCHANGED nextId
     \/ \E e \in ErrKinds : ServerError(m, e) /\ UNCHANGED <<dbRecords, nextId, notif>>

\* addRecord up to the response
AddRecordCall(recordData, via) ==
  LET m == MsgVia("addRecord", userId, NoId, RecordInsertData(userId, recordData), via)
  IN \/ ServerInsertRecord(m)
     \/ \E e \in ErrKinds : ServerError(m, e) /\ UNCHANGED <<dbRecords, nextId, notif>>

\* handleSubmit up to the await: validation, then the hook call it chooses
HandleSubmit(date, startText, endText, hoursText, officeText) ==
  LET startBalance == parseFloat(startText)
      endBalance == parseFloat(endText)
      workHours == parseFloat(hoursText)
      office == trim(officeText)
      existing == FirstMatch(date, office)
      data == [date |-> date, startBalance |-> startBalance.val,
               endBalance |-> endBalance.val, workHours |-> workHours.val,
               office |-> office]
      updates == SubmitUpdates(date, startBalance.val, endBalance.val,
                               workHours.val, office)
      blocked == UNCHANGED <<dbRecords, nextId, notif, net>>
  IN /\ view = "internet"
     /\ userId # NoUser
     /\ CanCall
     /\ calls' = calls + 1
     /\ IF isNaN(startBalance) \/ isNaN(endBalance) \/ isNaN(workHours)
        THEN actionError' = InvalidNumbers /\ blocked
        ELSE IF startBalance.val < endBalance.val
        THEN actionError' = StartBelowEnd /\ blocked
        ELSE IF trim(officeText) = <<>>
        THEN actionError' = NoOffice /\ blocked
        ELSE /\ actionError' = NoErr
             /\ IF editingId # NoId
                THEN UpdateRecordCall(editingId, updates, "edit")
                ELSE IF existing # NoId
                THEN UpdateRecordCall(existing, updates, "existing")
                ELSE AddRecordCall(data, "create")
     /\ UNCHANGED <<view, extVars, userId, dbTodos, todos, loading, error, outcome,
                    records, editingId>>

\* the rest of addRecord / updateRecord and of handleSubmit once the
\* response has arrived
RecordWriteDone(m) ==
  /\ m.kind \in {"addRecord", "updateRecord"}
  /\ IF m.err = NoErr
     THEN /\ records' = IF m.kind = "addRecord"
                        THEN <<convertRowToRecord(m.data[1])>> \o records
                        ELSE [i \in 1..Len(records) |->
                                IF records[i].id = m.id
                                THEN convertRowToRecord(m.data[1]) ELSE records[i]]
          /\ error' = NoErr
          /\ outcome' = "returned"
          /\ editingId' = IF m.via = "edit" THEN NoId ELSE editingId
          /\ actionError' = IF m.via = "existing" THEN UpdatedExisting ELSE actionError
          /\ net' = Remove(m)
          /\ UNCHANGED <<userId, loading, notif>>
     ELSE /\ outcome' = FailureOutcome(m.kind)
          /\ IF IsJWTExpired(m.err)
             THEN Unmounted
             ELSE /\ error' = ErrorText(m.err, IF m.kind = "addRecord"
                                               THEN "Failed to add record"
                                               ELSE "Failed to update record")
                  /\ actionError' =
                       IF Rethrows(m.kind) THEN ErrorText(m.err, "Failed to save record")
                       ELSE IF m.via = "existing" THEN UpdatedExisting ELSE actionError
                  /\ editingId' = IF ~Rethrows(m.kind) /\ m.via = "edit" THEN NoId
                                  ELSE editingId
                  /\ net' = Remove(m)
                  /\ UNCHANGED <<userId, loading, notif, records>>
  /\ UNCHANGED <<view, extVars, dbTodos, nextId, todos, calls, dbRecords>>

HandleEdit(id) ==
  /\ view = "internet"
  /\ userId # NoUser
  /\ \E r \in SeqToSet(records) : r.id = id
  /\ editingId' = id
  /\ actionError' = NoErr
  /\ UNCHANGED <<view, extVars, userId, dbTodos, nextId, todos, loading, error, net, notif,
                 outcome, calls, dbRecords, records>>

HandleCancelEdit ==
  /\ view = "internet"
  /\ userId # NoUser
  /\ editingId' = NoId
  /\ actionError' = NoErr
  /\ UNCHANGED <<view, extVars, userId, dbTodos, nextId, todos, loading, error, net, notif,
                 outcome, calls, dbRecords, records>>

\* handleConfirmDelete and deleteRecord up to the first await: the lookup
HandleConfirmDelete(id) ==
  /\ view = "internet"
  /\ userId # NoUser
  /\ \E r \in SeqToSet(records) : r.id = id
  /\ CanCall
  /\ calls' = calls + 1
  /\ actionError' = NoErr
  /\ LET m == Msg("selectRecord", userId, id, NoUpd)
     IN ServerSelectRecord(m) \/ \E e \in ErrKinds : ServerError(m, e)
  /\ UNCHANGED <<view, extVars, userId, dbTodos, nextId, todos, loading, error, notif,
                 outcome, dbRecords, records, editingId>>

\* deleteRecord after the lookup: give up, or perform the deletion
DeleteRecordChecked(m) ==
  /\ m.kind = "selectRecord"
  /\ IF m.err # NoErr
     THEN /\ outcome' = FailureOutcome(m.kind)
          /\ UNCHANGED dbRecords
          /\ IF IsJWTExpired(m.err)
             THEN Unmounted
             ELSE /\ error' = NotFoundOrDenied
                  /\ actionError' = NotFoundOrDenied
                  /\ net' = Remove(m)
                  /\ UNCHANGED <<userId, loading, notif, records, editingId>>
     ELSE LET d == Msg("deleteRecord", m.uid, m.id, NoUpd)
          IN /\ \/ /\ ServerDeleteRecord(d)
                   /\ net' = Remove(m) (+) SetToBag({Reply(d, <<>>, NoErr)})
                \/ /\ \E e \in ErrKinds :
                        net' = Remove(m) (+) SetToBag({Reply(d, <<>>, e)})
                   /\ UNCHANGED <<dbRecords, notif>>
             /\ UNCHANGED <<userId, loading, error, outcome, records, editingId,
                            actionError>>
  /\ UNCHANGED <<view, extVars, dbTodos, nextId, todos, calls>>

\* the rest of deleteRecord and of handleConfirmDelete
DeleteRecordDone(m) ==
  /\ m.kind = "deleteRecord"
  /\ IF m.err = NoErr
     THEN /\ records' = SelectSeq(records, LAMBDA r : r.id # m.id)
          /\ error' = NoErr
          /\ outcome' = "returned"
          /\ net' = Remove(m)
          /\ UNCHANGED <<userId, loading, notif, editingId, actionError>>
     ELSE /\ outcome' = FailureOutcome(m.kind)
          /\ IF IsJWTExpired(m.err)
             THEN Unmounted
             ELSE /\ error' = ErrorText(m.err, "Failed to delete record")
                  /\ actionError' = ErrorText(m.err, "Failed to delete record")
                  /\ net' = Remove(m)
                  /\ UNCHANGED <<userId, loading, notif, records, editingId>>
  /\ UNCHANGED <<view, extVars, dbTodos, nextId, todos, calls, dbRecords>>

\* what the form fields may hold when the user submits
Dates == {10}                    \* 2025-01-10 (YYYY-MM-DD strings)
StartTexts == {<<"5">>, <<"x">>}
EndTexts == {<<"5">>, <<"3">>, <<"7">>, <<"-", "1">>}
HoursTexts == {<<"8">>, <<"x">>}
OfficeTexts == {<<"H", "Q">>, <<"h", "q">>, <<" ">>}

\* ------------------------- the other tab on the usage-record page
\* a submission that passed the other tab's handleSubmit validation
OtherTabData(date, startText, endText, hoursText, officeText) ==
  [date |-> date, startBalance |-> parseFloat(startText).val,
   endBalance |-> parseFloat(endText).val, workHours |-> parseFloat(hoursText).val,
   office |-> trim(officeText)]

PassesValidation(startText, endText, hoursText, officeText) ==
  /\ ~isNaN(parseFloat(startText)) /\ ~isNaN(parseFloat(endText))
  /\ ~isNaN(parseFloat(hoursText))
  /\ parseFloat(startText).val >= parseFloat(endText).val
  /\ trim(officeText) # <<>>

\* the other tab's own duplicate check, made on an up-to-date collection
SameDayAndOffice(r1, r2) ==
  /\ r1.user_id = r2.user_id
  /\ r1.date = r2.date
  /\ officeNamesMatch(r1.office, r2.office)

OtherTabAddRecord(date, startText, endText, hoursText, officeText) ==
  /\ view = "internet"
  /\ CanCall
  /\ calls' = calls + 1
  /\ userId # NoUser
  /\ PassesValidation(startText, endText, hoursText, officeText)
  /\ nextId <= MaxRows
  /\ LET row == RecordRow(nextId, RecordInsertData(userId,
                  OtherTabData(date, startText, endText, hoursText, officeText)))
     IN /\ \A r \in dbRecords : ~SameDayAndOffice(r, row)
        /\ dbRecords' = dbRecords \cup {row}
  /\ nextId' = nextId + 1
  /\ notif' = TRUE
  /\ UNCHANGED <<view, extVars, userId, dbTodos, todos, loading, error, net, outcome,
                 records, editingId, actionError>>

OtherTabUpdateRecord(old, date, startText, endText, hoursText, officeText) ==
  /\ view = "internet"
  /\ CanCall
  /\ calls' = calls + 1
  /\ old \in dbRecords
  /\ RecordsUpdatePolicy(old, userId)
  /\ PassesValidation(startText, endText, hoursText, officeText)
  /\ LET d == OtherTabData(date, startText, endText, hoursText, officeText)
         new == [old EXCEPT !.date = d.date, !.start_balance = d.startBalance,
                            !.end_balance = d.endBalance, !.work_hours = d.workHours,
                            !.office = d.office,
                            !.usage = d.startBalance - d.endBalance]
     IN /\ \A r \in dbRecords \ {old} : ~SameDayAndOffice(r, new)
        /\ dbRecords' = (dbRecords \ {old}) \cup {new}
  /\ notif' = TRUE
  /\ UNCHANGED <<view, extVars, userId, dbTodos, nextId, todos, loading, error, net, outcome,
                 records, editingId, actionError>>

OtherTabDeleteRecord(old) ==
  /\ view = "internet"
  /\ CanCall
  /\ calls' = calls + 1
  /\ old \in dbRecords
  /\ RecordsDeletePolicy(old, userId)
  /\ dbRecords' = dbRecords \ {old}
  /\ notif' = TRUE
  /\ UNCHANGED <<view, extVars, userId, dbTodos, nextId, todos, loading, error, net, outcome,
                 records, editingId, actionError>>

\* ======================================================================
\* The admin variant of the backend: user_profiles with admin flags, the
\* audit trigger on todos and internet_records, audit_logs, deleted_records
\* ======================================================================
SuperAdminUser == "sa"           \* the account of the bootstrap e-mail address
Accounts == Users \cup {SuperAdminUser}
NULL == [null |-> TRUE]          \* SQL NULL in a jsonb column
AccessDenied == "Access denied. Admin privileges required."
RlsViolation == "new row violates row-level security policy"
Tables == {"todos", "internet_records"}

\* is_admin_user(check_user_id), is_super_admin(check_user_id)
is_admin_user(check_user_id) ==
  IF check_user_id \notin Accounts THEN FALSE ELSE profiles[check_user_id].is_admin

is_super_admin(check_user_id) ==
  IF check_user_id \notin Accounts THEN FALSE ELSE profiles[check_user_id].is_super_admin

\* row-level policies of the admin variant
\* todos, internet_records: the owner's policies plus "Admins can view all ..."
AdminTodosSelectPolicy(row, auth) == TodosSelectPolicy(row, auth) \/ is_admin_user(auth)
AdminRecordsSelectPolicy(row, auth) == RecordsSelectPolicy(row, auth) \/ is_admin_user(auth)

\* user_profiles: own profile, "Admins can view profiles", "Super admin can
\* manage all profiles" (FOR ALL)
ProfilesSelectPolicy(user_id, auth) ==
  auth = user_id \/ is_admin_user(auth) \/ is_super_admin(auth)
ProfilesUpdatePolicy(user_id, auth) == auth = user_id \/ is_super_admin(auth)

\* audit_logs: "Admins can view all audit logs"; no policy for any write
AuditLogsSelectPolicy(row, auth) == is_admin_user(auth)
\* deleted_records: "Admins can view all deleted records", "Admins can
\* restore deleted records" (FOR DELETE)
DeletedRecordsSelectPolicy(row, auth) == is_admin_user(auth)
DeletedRecordsDeletePolicy(row, auth) == is_admin_user(auth)

\* the audit_logs row that create_audit_log() inserts for operation TG_OP
AuditEntry(auth, table, TG_OP, old, new) ==
  [user_id |-> auth,
   table_name |-> table,
   record_id |-> IF TG_OP = "DELETE" THEN old.id ELSE new.id,
   action |-> TG_OP,
   old_data |-> IF TG_OP = "DELETE" THEN old ELSE NULL,
   new_data |-> IF TG_OP \in {"INSERT", "UPDATE"} THEN new ELSE NULL]

\* the deleted_records row that create_audit_log() inserts on DELETE
DeletedRow(id, auth, table, old) ==
  [id |-> id, user_id |-> old.user_id, table_name |-> table,
   record_id |-> old.id, record_data |-> old, deleted_by |-> auth]

\* trigger function create_audit_log(), AFTER INSERT OR UPDATE OR DELETE
\* on todos and on internet_records, FOR EACH ROW
create_audit_log(auth, table, TG_OP, old, new) ==
  /\ auditLogs' = Append(auditLogs, AuditEntry(auth, table, TG_OP, old, new))
  /\ IF TG_OP = "DELETE"
     THEN /\ deletedRecords' = deletedRecords \cup {DeletedRow(nextId, auth, table, old)}
          /\ nextId' = nextId + 1
     ELSE UNCHANGED deletedRecords

\* ---------------------------------------------------- useAdminData.ts
convertUserProfile(user_id) ==
  [userId |-> user_id, isAdmin |-> profiles[user_id].is_admin]

convertAuditLog(row) ==
  [userId |-> row.user_id, tableName |-> row.table_name, recordId |-> row.record_id,
   action |-> row.action, oldData |-> row.old_data, newData |-> row.new_data]

convertDeletedRecord(row) ==
  [id |-> row.id, userId |-> row.user_id, tableName |-> row.table_name,
   recordId |-> row.record_id, recordData |-> row.record_data,
   deletedBy |-> row.deleted_by]

\* the four totals of fetchStats (the two time-windowed counts, which need
\* last_login and created_at, are not modelled)
NoStats ==
  [totalUsers |-> 0, totalTodos |-> 0, totalInternetRecords |-> 0,
   totalDeletedRecords |-> 0]

\* useState initial values of the hook
AdminInitial ==
  [users |-> {}, auditLogs |-> <<>>, deletedRecords |-> {}, stats |-> NoStats,
   loading |-> TRUE, error |-> NoErr]

\* the selects of the four fetchers, as the caller's policies let them see
\* the tables.  The lists of users and of deleted records are modelled as the
\* sets of their elements (their order columns are not modelled).
SelectUsers(auth) ==
  {convertUserProfile(u) : u \in {a \in Accounts : ProfilesSelectPolicy(a, auth)}}

RECURSIVE Reverse(_)
Reverse(s) == IF s = <<>> THEN <<>> ELSE Reverse(Tail(s)) \o <<Head(s)>>

\* order('created_at', { ascending: false })
SelectAuditLogs(auth) ==
  Reverse(SelectSeq(MapSeq(convertAuditLog, auditLogs),
                    LAMBDA r : is_admin_user(auth)))

SelectDeletedRecords(auth) ==
  {convertDeletedRecord(d) : d \in {r \in deletedRecords : DeletedRecordsSelectPolicy(r, auth)}}

SelectStats(auth) ==
  [totalUsers |-> Cardinality({a \in Accounts : ProfilesSelectPolicy(a, auth)}),
   totalTodos |-> Cardinality({r \in dbTodos : AdminTodosSelectPolicy(r, auth)}),
   totalInternetRecords |-> Cardinality({r \in dbRecords : AdminRecordsSelectPolicy(r, auth)}),
   totalDeletedRecords |->
     Cardinality({r \in deletedRecords : DeletedRecordsSelectPolicy(r, auth)})]

Fetchers == {"fetchUsers", "fetchAuditLogs", "fetchDeletedRecords", "fetchStats"}

\* the response of fetcher `kind`, started by handler `via` for record `id`
FetchReply(kind, auth, id, via, failed) ==
  LET m == MsgVia(kind, auth, id, NoUpd, via)
      data == CASE kind = "fetchUsers" -> <<[users |-> SelectUsers(auth)]>>
                [] kind = "fetchAuditLogs" -> <<[auditLogs |-> SelectAuditLogs(auth)]>>
                [] kind = "fetchDeletedRecords" -> <<[deletedRecords |-> SelectDeletedRecords(auth)]>>
                [] kind = "fetchStats" -> <<[counts |-> SelectStats(auth)]>>
  IN IF failed THEN Reply(m, <<>>, JWTExpired) ELSE Reply(m, data, NoErr)

\* Promise.all over the fetchers `kinds`: every query is sent, and each one
\* succeeds or fails remotely on its own
StartFetchers(base, kinds, auth, id, via) ==
  \E failing \in SUBSET kinds :
    net' = base (+) SetToBag({FetchReply(k, auth, id, via, k \in failing) : k \in kinds})

\* what every step of the admin panel leaves alone
adminFrame == <<view, userId, todos, loading, error, notif, outcome, records,
                editingId, actionError, profiles, lastCall, authVars, filterVars,
                loginVars>>

AdminCanCall == calls < MaxAdminCalls

\* AdminPage.tsx: the spinner while loading, the "Access Denied" view while
\* error is set, the dashboard otherwise
Gate == IF admin.loading THEN "checking"
        ELSE IF admin.error # NoErr THEN "denied" ELSE "granted"

\* the effect on mount: loadAdminData up to the first await of
\* checkAdminStatus, supabase.auth.getUser()
LoadAdminDataCall ==
  /\ view = "admin"
  /\ adminStep = "mount"
  /\ adminStep' = "checking"
  /\ admin' = [admin EXCEPT !.loading = TRUE]
  /\ LET m == Msg("getUser", userId, NoId, NoUpd)
     IN \/ net' = Send(Reply(m, <<[user |-> userId]>>, NoErr)) /\ userId # NoUser
        \/ net' = Send(Reply(m, <<>>, JWTExpired))
  /\ UNCHANGED <<adminFrame, dbTodos, dbRecords, nextId, calls, auditLogs,
                 deletedRecords, restoring, deleting>>

\* if (!isAdmin) { setError('Access denied...'); setLoading(false); return }
DenyAccess == admin' = [admin EXCEPT !.error = AccessDenied, !.loading = FALSE]

\* checkAdminStatus after getUser: `if (!user) return false`, else the select
\* of the caller's is_admin (.maybeSingle())
GetUserDone(m) ==
  /\ view = "admin"
  /\ BagIn(m, net)
  /\ m.kind = "getUser"
  /\ IF m.data = <<>>
     THEN /\ DenyAccess
          /\ adminStep' = "done"
          /\ net' = Remove(m)
     ELSE /\ LET user == m.data[1].user
                 q == Msg("checkAdminStatus", user, NoId, NoUpd)
                 rows == {a \in Accounts : a = user /\ ProfilesSelectPolicy(a, user)}
                 data == IF rows = {} THEN <<>>
                         ELSE <<[is_admin |-> profiles[user].is_admin]>>
             IN \/ net' = Remove(m) (+) SetToBag({Reply(q, data, NoErr)})
                \/ net' = Remove(m) (+) SetToBag({Reply(q, <<>>, JWTExpired)})
          /\ UNCHANGED <<admin, adminStep>>
  /\ UNCHANGED <<adminFrame, dbTodos, dbRecords, nextId, calls, auditLogs,
                 deletedRecords, restoring, deleting>>

\* the rest of checkAdminStatus (`data?.is_admin || false`, false on any
\* error) and loadAdminData up to Promise.all over the four fetchers
CheckAdminStatusDone(m) ==
  /\ view = "admin"
  /\ BagIn(m, net)
  /\ m.kind = "checkAdminStatus"
  /\ LET isAdmin == m.err = NoErr /\ m.data # <<>> /\ m.data[1].is_admin
     IN IF ~isAdmin
        THEN /\ DenyAccess
             /\ adminStep' = "done"
             /\ net' = Remove(m)
        ELSE /\ StartFetchers(Remove(m), Fetchers, m.uid, NoId, "load")
             /\ adminStep' = "fetching"
             /\ UNCHANGED admin
  /\ UNCHANGED <<adminFrame, dbTodos, dbRecords, nextId, calls, auditLogs,
                 deletedRecords, restoring, deleting>>

\* m is the last response its Promise.all waits for
LastOf(m) ==
  \A x \in BagToSet(Remove(m)) : ~(x.kind \in Fetchers /\ x.via = m.via /\ x.id = m.id)

\* a fetcher's continuation has left the hook state `a`; when it is the last
\* one of its Promise.all, the awaiting function continues:
\* loadAdminData with setError(null) and, finally, setLoading(false);
\* handleRestore and handlePermanentDelete with their finally blocks
FetcherReturns(m, a) ==
  /\ net' = Remove(m)
  /\ IF ~LastOf(m)
     THEN admin' = a /\ UNCHANGED <<adminStep, restoring, deleting>>
     ELSE CASE m.via = "load" ->
                 /\ admin' = [a EXCEPT !.error = NoErr, !.loading = FALSE]
                 /\ adminStep' = "done"
                 /\ UNCHANGED <<restoring, deleting>>
            [] m.via = "restore" ->
                 /\ admin' = a
                 /\ restoring' = NoId
                 /\ UNCHANGED <<adminStep, deleting>>
            [] m.via = "purge" ->
                 /\ admin' = a
                 /\ deleting' = NoId
                 /\ UNCHANGED <<adminStep, restoring>>
  /\ UNCHANGED <<adminFrame, dbTodos, dbRecords, nextId, calls, auditLogs,
                 deletedRecords>>

\* fetchUsers, fetchAuditLogs, fetchDeletedRecords after the await:
\* `if (error) throw error`, the setter, and the catch with setError
FetchUsersDone(m) ==
  /\ view = "admin"
  /\ BagIn(m, net)
  /\ m.kind = "fetchUsers"
  /\ FetcherReturns(m, IF m.err # NoErr
                       THEN [admin EXCEPT !.error = ErrorText(m.err, "Failed to fetch users")]
                       ELSE [admin EXCEPT !.users = m.data[1].users])

FetchAuditLogsDone(m) ==
  /\ view = "admin"
  /\ BagIn(m, net)
  /\ m.kind = "fetchAuditLogs"
  /\ FetcherReturns(m, IF m.err # NoErr
                       THEN [admin EXCEPT !.error = ErrorText(m.err, "Failed to fetch audit logs")]
                       ELSE [admin EXCEPT !.auditLogs = m.data[1].auditLogs])

FetchDeletedRecordsDone(m) ==
  /\ view = "admin"
  /\ BagIn(m, net)
  /\ m.kind = "fetchDeletedRecords"
  /\ FetcherReturns(m, IF m.err # NoErr
                       THEN [admin EXCEPT !.error =
                               ErrorText(m.err, "Failed to fetch deleted records")]
                       ELSE [admin EXCEPT !.deletedRecords = m.data[1].deletedRecords])

\* fetchStats after its awaits: the `error` of a count query is never read,
\* a failed count is `count || 0`
FetchStatsDone(m) ==
  /\ view = "admin"
  /\ BagIn(m, net)
  /\ m.kind = "fetchStats"
  /\ FetcherReturns(m, IF m.err # NoErr
                       THEN [admin EXCEPT !.stats = NoStats]
                       ELSE [admin EXCEPT !.stats = m.data[1].counts])

\* insert into <table> (record_data without its id): the row gets a new id;
\* the owner-only insert policy and the unique index apply, then the trigger
ServerRestoreInsert(m) ==
  LET table == m.upd.tableName
      row == [m.upd.recordData EXCEPT !.id = nextId]
      allowed == IF table = "todos" THEN TodosInsertPolicy(row, m.uid)
                 ELSE RecordsInsertPolicy(row, m.uid)
      dup == table = "internet_records"
             /\ \E r \in dbRecords : UniqueKey(r) = UniqueKey(row)
  IN IF ~allowed \/ dup
     THEN /\ net' = Send(Reply(m, <<>>, IF ~allowed THEN RlsViolation ELSE DupKey))
          /\ UNCHANGED <<dbTodos, dbRecords, nextId, auditLogs, deletedRecords>>
     ELSE /\ nextId <= MaxRows
          /\ nextId' = nextId + 1
          /\ IF table = "todos"
             THEN dbTodos' = dbTodos \cup {row} /\ UNCHANGED dbRecords
             ELSE dbRecords' = dbRecords \cup {row} /\ UNCHANGED dbTodos
          /\ create_audit_log(m.uid, table, "INSERT", NULL, row)
          /\ net' = Send(Reply(m, <<>>, NoErr))

\* delete from deleted_records where id = id
ServerDeleteDeletedRecord(base, m) ==
  LET hit == {d \in deletedRecords : d.id = m.id /\ DeletedRecordsDeletePolicy(d, m.uid)}
  IN /\ deletedRecords' = deletedRecords \ hit
     /\ net' = base (+) SetToBag({Reply(m, <<>>, NoErr)})

\* handleRestore -> restoreRecord(deletedRecord) up to the insert's response
RestoreRecordCall(deletedRecord) ==
  /\ view = "admin"
  /\ Gate = "granted"
  /\ deletedRecord \in admin.deletedRecords
  /\ restoring # deletedRecord.id
  /\ AdminCanCall
  /\ calls' = calls + 1
  /\ restoring' = deletedRecord.id
  /\ LET m == MsgVia("restoreInsert", userId, deletedRecord.id, deletedRecord, "restore")
     IN \/ ServerRestoreInsert(m)
        \/ /\ ServerError(m, JWTExpired)
           /\ UNCHANGED <<dbTodos, dbRecords, nextId, auditLogs, deletedRecords>>
  /\ UNCHANGED <<adminFrame, admin, adminStep, deleting>>

\* catch of restoreRecord / permanentlyDeleteRecord: setError, rethrow; the
\* page's handler logs it and resets its spinner
RestoreThrows(m) ==
  /\ admin' = [admin EXCEPT !.error = ErrorText(m.err, "Failed to restore record")]
  /\ restoring' = NoId
  /\ net' = Remove(m)
  /\ UNCHANGED <<deletedRecords, deleting>>

\* restoreRecord after the insert: throw on error, else the delete of the
\* soft-delete record
RestoreInsertDone(m) ==
  /\ view = "admin"
  /\ BagIn(m, net)
  /\ m.kind = "restoreInsert"
  /\ IF m.err # NoErr
     THEN RestoreThrows(m)
     ELSE /\ LET q == MsgVia("restoreDelete", m.uid, m.id, NoUpd, "restore")
             IN \/ ServerDeleteDeletedRecord(Remove(m), q)
                \/ /\ net' = Remove(m) (+) SetToBag({Reply(q, <<>>, JWTExpired)})
                   /\ UNCHANGED deletedRecords
          /\ UNCHANGED <<admin, restoring, deleting>>
  /\ UNCHANGED <<adminFrame, adminStep, dbTodos, dbRecords, nextId, calls, auditLogs>>

\* restoreRecord after the delete: throw on error, else the refresh
\* Promise.all([fetchDeletedRecords(), fetchStats()])
RestoreDeleteDone(m) ==
  /\ view = "admin"
  /\ BagIn(m, net)
  /\ m.kind = "restoreDelete"
  /\ IF m.err # NoErr
     THEN RestoreThrows(m)
     ELSE /\ StartFetchers(Remove(m), {"fetchDeletedRecords", "fetchStats"},
                           m.uid, m.id, "restore")
          /\ UNCHANGED <<admin, restoring, deleting, deletedRecords>>
  /\ UNCHANGED <<adminFrame, adminStep, dbTodos, dbRecords, nextId, calls, auditLogs>>

\* handlePermanentDelete (confirmed) -> permanentlyDeleteRecord(id) up to the
\* delete's response
PermanentlyDeleteRecordCall(deletedRecordId) ==
  /\ view = "admin"
  /\ Gate = "granted"
  /\ deletedRecordId \in {d.id : d \in admin.deletedRecords}
  /\ deleting # deletedRecordId
  /\ AdminCanCall
  /\ calls' = calls + 1
  /\ deleting' = deletedRecordId
  /\ LET m == MsgVia("purgeDelete", userId, deletedRecordId, NoUpd, "purge")
     IN \/ ServerDeleteDeletedRecord(net, m)
        \/ ServerError(m, JWTExpired) /\ UNCHANGED deletedRecords
  /\ UNCHANGED <<adminFrame, admin, adminStep, restoring, dbTodos, dbRecords, nextId,
                 auditLogs>>

\* permanentlyDeleteRecord after the delete
PermanentlyDeleteDone(m) ==
  /\ view = "admin"
  /\ BagIn(m, net)
  /\ m.kind = "purgeDelete"
  /\ IF m.err # NoErr
     THEN /\ admin' = [admin EXCEPT !.error =
                         ErrorText(m.err, "Failed to permanently delete record")]
          /\ deleting' = NoId
          /\ net' = Remove(m)
          /\ UNCHANGED restoring
     ELSE /\ StartFetchers(Remove(m), {"fetchDeletedRecords", "fetchStats"},
                           m.uid, m.id, "purge")
          /\ UNCHANGED <<admin, restoring, deleting>>
  /\ UNCHANGED <<adminFrame, adminStep, dbTodos, dbRecords, nextId, calls, auditLogs,
                 deletedRecords>>

\* the owner of a task deletes it in a session of their own: the delete
\* statement of useTodos.deleteTodo and the trigger
OwnerDeletesTodo(id) ==
  /\ view = "admin"
  /\ AdminCanCall
  /\ calls' = calls + 1
  /\ nextId <= MaxRows
  /\ \E old \in dbTodos :
       /\ old.id = id
       /\ dbTodos' = dbTodos \ {old}
       /\ create_audit_log(old.user_id, "todos", "DELETE", old, NULL)
  /\ UNCHANGED <<adminFrame, admin, adminStep, restoring, deleting, dbRecords, net>>

\* another admin session purges a soft-delete record
OtherAdminPurges(id) ==
  /\ view = "admin"
  /\ AdminCanCall
  /\ calls' = calls + 1
  /\ \E d \in deletedRecords :
       /\ d.id = id
       /\ is_admin_user(SuperAdminUser)
       /\ deletedRecords' = deletedRecords \ {d}
  /\ UNCHANGED <<adminFrame, admin, adminStep, restoring, deleting, dbTodos, dbRecords,
                 nextId, auditLogs, net>>

\* ------------------------------------------------- useSupabaseAuth.ts
\* Time is counted in minutes.  The auth client (supabase.auth) keeps one
\* session for all the tabs of the browser and tells every listener of a
\* sign-in, a sign-out or a token refresh, whichever tab caused it.
MaxAge == 1440            \* maxAge = 24 * 60 * 60 * 1000
RefreshThreshold == 5     \* refreshThreshold = 5 * 60 * 1000
PollEvery == 1            \* setInterval(checkAndRefreshToken, 60 * 1000)

SessionExpired == "Session expired. Please sign in again."
FailedToFetch == "Failed to fetch"                \* the request never got through
InvalidToken == "Invalid Refresh Token"           \* the auth service refused the token
InvalidLogin == "Invalid login credentials"
LookupErrors == {FailedToFetch, InvalidToken}
RefreshErrors == {FailedToFetch, InvalidToken}

NoSession == [user |-> NoUser, expires_at |-> 0]               \* session === null
Session(u, expires_at) == [user |-> u, expires_at |-> expires_at]
\* the session the auth service issues at time `now`
NewSession(u, now) == Session(u, now + TokenLifetime)

NoBackup == [item |-> "none", session |-> NoSession, saved_at |-> 0]
Garbage == [item |-> "garbage", session |-> NoSession, saved_at |-> 0]

saveSessionToStorage(session, now) ==
  IF session = NoSession THEN NoBackup
  ELSE [item |-> "json", session |-> session, saved_at |-> now]

\* the stored session or null, and the item left in localStorage
getSessionFromStorage(b, now) ==
  CASE b.item = "none" -> [session |-> NoSession, item |-> b]
    [] b.item = "garbage" -> [session |-> NoSession, item |-> NoBackup]
    [] b.item = "json" /\ now - b.saved_at > MaxAge -> [session |-> NoSession, item |-> NoBackup]
    [] OTHER -> [session |-> b.session, item |-> b]

AuthInitial == [user |-> NoUser, loading |-> TRUE, error |-> NoErr, sessionChecked |-> FALSE]

Event(e, session) == [event |-> e, session |-> session]
NoEvent == Event("", NoSession)

\* the onAuthStateChange callback: what it makes of the hook's state and of
\* the backup
ListenerState(a, e) ==
  [a EXCEPT !.user = e.session.user, !.loading = FALSE, !.error = NoErr]

ListenerBackup(b, e, now) ==
  CASE e.event \in {"SIGNED_IN", "TOKEN_REFRESHED"} ->
         IF e.session # NoSession THEN saveSessionToStorage(e.session, now) ELSE b
    [] e.event = "SIGNED_OUT" -> saveSessionToStorage(NoSession, now)
    [] OTHER -> b

\* the catch blocks set the message but leave the user as it was
RestoreFailed_KeepsUser(a, message) ==
  [a EXCEPT !.error = message, !.loading = FALSE, !.sessionChecked = TRUE]

\* the catch blocks of getInitialSession and its finally
RestoreFailed(a, message) ==
  [a EXCEPT !.user = NoUser, !.error = message, !.loading = FALSE, !.sessionChecked = TRUE]

\* the finally of getInitialSession alone
RestoreFinally(a) == [a EXCEPT !.loading = FALSE, !.sessionChecked = TRUE]

\* the auto-refresh effect depends on [user, sessionChecked]; a user taken
\* from a session is a new object every time
DepsChanged(a, b) ==
  b.user # NoUser \/ a.user # b.user \/ a.sessionChecked # b.sessionChecked

\* what a step of the session manager leaves alone
authFrame == <<view, userId, dbTodos, nextId, todos, loading, error, notif, outcome,
               dbRecords, records, editingId, actionError, adminVars, filterVars,
               loginVars>>

\* session changes a behaviour may still start (sign-ins and sign-outs of
\* either tab)
CanChangeSession == calls < MaxEvents

\* the effect on mount, up to `await supabase.auth.getSession()`, and the
\* registration of the listener
MountAuth ==
  /\ view = "auth"
  /\ authStep = "mount"
  /\ authState' = [authState EXCEPT !.loading = TRUE]
  /\ authStep' = "getSession"
  /\ UNCHANGED <<backup, client, events, lastEvent, clock, timerDue, net, calls, authFrame>>

\* getSession resolves with the client's session (or none)
GetSessionOk ==
  /\ view = "auth"
  /\ authStep = "getSession"
  /\ client = NoSession \/ client.expires_at > clock
  /\ authState' = RestoreFinally([authState EXCEPT !.user = client.user])
  /\ backup' = IF client # NoSession THEN saveSessionToStorage(client, clock) ELSE backup
  /\ authStep' = "done"
  /\ timerDue' = (timerDue \/ DepsChanged(authState, authState'))
  /\ UNCHANGED <<client, events, lastEvent, clock, net, calls, authFrame>>

\* getSession resolves with an error and the backup is missing, stale or
\* unreadable: `throw sessionError`
GetSessionFails(sessionError) ==
  /\ view = "auth"
  /\ authStep = "getSession"
  /\ LET storedSession == getSessionFromStorage(backup, clock)
     IN /\ storedSession.session = NoSession
        /\ backup' = storedSession.item
  /\ authState' = RestoreFailed(authState, sessionError)
  /\ authStep' = "done"
  /\ timerDue' = (timerDue \/ DepsChanged(authState, authState'))
  /\ UNCHANGED <<client, events, lastEvent, clock, net, calls, authFrame>>

\* getSession resolves with an error and a backup is there: up to
\* `await supabase.auth.refreshSession({ refresh_token })`
GetSessionStartsRefresh(sessionError) ==
  /\ view = "auth"
  /\ authStep = "getSession"
  /\ LET storedSession == getSessionFromStorage(backup, clock)
         call == MsgVia("refreshSession", storedSession.session.user, NoId, NoUpd, "restore")
     IN /\ storedSession.session # NoSession
        /\ \/ net' = Send(Reply(call, <<[session |-> NewSession(storedSession.session.user, clock)]>>, NoErr))
           \/ net' = Send(Reply(call, <<>>, NoErr))
           \/ \E e \in RefreshErrors : net' = Send(Reply(call, <<>>, e))
  /\ authStep' = "refresh"
  /\ UNCHANGED <<authState, backup, client, events, lastEvent, clock, timerDue, calls,
                 authFrame>>

\* the backup refresh is answered without an error: the client keeps the new
\* session and tells the listener, then the handler goes on
BackupRefreshOk(m) ==
  /\ view = "auth"
  /\ BagIn(m, net)
  /\ m.kind = "refreshSession" /\ m.via = "restore" /\ m.err = NoErr
  /\ authStep = "refresh"
  /\ net' = Remove(m)
  /\ IF m.data = <<>>
     THEN /\ authState' = RestoreFinally(authState)
          /\ UNCHANGED <<backup, client, lastEvent>>
     ELSE LET e == Event("TOKEN_REFRESHED", m.data[1].session)
          IN /\ client' = e.session
             /\ lastEvent' = e
             /\ authState' = RestoreFinally([ListenerState(authState, e)
                                               EXCEPT !.user = e.session.user])
             /\ backup' = saveSessionToStorage(e.session, clock)
  /\ authStep' = "done"
  /\ timerDue' = (timerDue \/ DepsChanged(authState, authState'))
  /\ UNCHANGED <<events, clock, calls, authFrame>>

\* the backup refresh is answered with an error: a refused token makes the
\* client drop its session and tell the listener; then the handler removes
\* the backup and throws
BackupRefreshFails(m) ==
  /\ view = "auth"
  /\ BagIn(m, net)
  /\ m.kind = "refreshSession" /\ m.via = "restore" /\ m.err # NoErr
  /\ authStep = "refresh"
  /\ net' = Remove(m)
  /\ IF m.err = InvalidToken
     THEN /\ client' = NoSession
          /\ lastEvent' = Event("SIGNED_OUT", NoSession)
          /\ authState' = RestoreFailed(ListenerState(authState, lastEvent'), SessionExpired)
     ELSE /\ authState' = RestoreFailed(authState, SessionExpired)
          /\ UNCHANGED <<client, lastEvent>>
  /\ backup' = NoBackup
  /\ authStep' = "done"
  /\ timerDue' = (timerDue \/ DepsChanged(authState, authState'))
  /\ UNCHANGED <<events, clock, calls, authFrame>>

\* the listener is called with the oldest event not yet handed over
DeliverEvent ==
  /\ view = "auth"
  /\ authStep # "mount"
  /\ events # <<>>
  /\ LET e == Head(events)
     IN /\ authState' = ListenerState(authState, e)
        /\ backup' = ListenerBackup(backup, e, clock)
        /\ lastEvent' = e
  /\ events' = Tail(events)
  /\ timerDue' = (timerDue \/ DepsChanged(authState, authState'))
  /\ UNCHANGED <<client, authStep, clock, net, calls, authFrame>>

\* signIn up to `await supabase.auth.signInWithPassword(...)`
signInCall(u) ==
  /\ view = "auth"
  /\ authStep # "mount"
  /\ CanChangeSession
  /\ calls' = calls + 1
  /\ authState' = [authState EXCEPT !.error = NoErr]
  /\ LET call == MsgVia("signInWithPassword", u, NoId, NoUpd, "signIn")
     IN \/ net' = Send(Reply(call, <<[session |-> NewSession(u, clock)]>>, NoErr))
        \/ net' = Send(Reply(call, <<>>, InvalidLogin))
  /\ UNCHANGED <<backup, client, authStep, events, lastEvent, clock, timerDue, authFrame>>

\* the rest of signIn: on success the client keeps the session and tells the
\* listener, then the handler saves the backup
signInDone(m) ==
  /\ view = "auth"
  /\ BagIn(m, net)
  /\ m.kind = "signInWithPassword"
  /\ net' = Remove(m)
  /\ IF m.err # NoErr
     THEN /\ authState' = [authState EXCEPT !.error = m.err]
          /\ UNCHANGED <<backup, client, lastEvent, timerDue>>
     ELSE LET e == Event("SIGNED_IN", m.data[1].session)
          IN /\ client' = e.session
             /\ lastEvent' = e
             /\ authState' = ListenerState(authState, e)
             /\ backup' = saveSessionToStorage(e.session, clock)
             /\ timerDue' = (timerDue \/ DepsChanged(authState, authState'))
  /\ UNCHANGED <<authStep, events, clock, calls, authFrame>>

\* signOut up to `await supabase.auth.signOut()`
signOutCall ==
  /\ view = "auth"
  /\ authStep # "mount"
  /\ authState.user # NoUser
  /\ CanChangeSession
  /\ calls' = calls + 1
  /\ authState' = [authState EXCEPT !.error = NoErr]
  /\ LET call == MsgVia("signOut", authState.user, NoId, NoUpd, "signOut")
     IN \/ net' = Send(Reply(call, <<>>, NoErr))
        \/ net' = Send(Reply(call, <<>>, FailedToFetch))
  /\ UNCHANGED <<backup, client, authStep, events, lastEvent, clock, timerDue, authFrame>>

\* the rest of signOut
signOutDone(m) ==
  /\ view = "auth"
  /\ BagIn(m, net)
  /\ m.kind = "signOut"
  /\ net' = Remove(m)
  /\ IF m.err # NoErr
     THEN /\ authState' = [authState EXCEPT !.error = m.err]
          /\ UNCHANGED <<backup, client, lastEvent, timerDue>>
     ELSE LET e == Event("SIGNED_OUT", NoSession)
          IN /\ client' = NoSession
             /\ lastEvent' = e
             /\ authState' = ListenerState(authState, e)
             /\ backup' = saveSessionToStorage(NoSession, clock)
             /\ timerDue' = (timerDue \/ DepsChanged(authState, authState'))
  /\ UNCHANGED <<authStep, events, clock, calls, authFrame>>

\* the other tab signs in: its hook saves the backup, this tab's listener
\* hears of it later
OtherTabSignsIn(u) ==
  /\ view = "auth"
  /\ CanChangeSession
  /\ calls' = calls + 1
  /\ client' = NewSession(u, clock)
  /\ backup' = saveSessionToStorage(client', clock)
  /\ events' = Append(events, Event("SIGNED_IN", client'))
  /\ UNCHANGED <<authState, authStep, lastEvent, clock, timerDue, net, authFrame>>

\* the other tab signs out
OtherTabSignsOut ==
  /\ view = "auth"
  /\ client # NoSession
  /\ CanChangeSession
  /\ calls' = calls + 1
  /\ client' = NoSession
  /\ backup' = saveSessionToStorage(NoSession, clock)
  /\ events' = Append(events, Event("SIGNED_OUT", NoSession))
  /\ UNCHANGED <<authState, authStep, lastEvent, clock, timerDue, net, authFrame>>

\* the auto-refresh effect is in force: `if (!user || !sessionChecked) return`
TimerInstalled(a) == a.user # NoUser /\ a.sessionChecked

\* the token is refreshed only once it has expired
NeedsRefresh_AfterExpiry(session, now) ==
  /\ session # NoSession
  /\ session.expires_at - now <= 0

\* `timeUntilExpiry < refreshThreshold && timeUntilExpiry > 0`
NeedsRefresh(session, now) ==
  /\ session # NoSession
  /\ session.expires_at - now < RefreshThreshold
  /\ session.expires_at - now > 0

\* checkAndRefreshToken at time `now`, up to `await supabase.auth.refreshSession()`
checkAndRefreshToken(now) ==
  IF NeedsRefresh(client, now)
  THEN LET call == MsgVia("refreshSession", client.user, NoId, NoUpd, "timer")
       IN \/ net' = Send(Reply(call, <<[session |-> NewSession(client.user, now)]>>, NoErr))
          \/ \E e \in RefreshErrors : net' = Send(Reply(call, <<>>, e))
  ELSE net' = net

\* the auto-refresh effect runs after user or sessionChecked changed: the
\* old interval is cleared, and with a user and a checked session the token
\* is checked at once and a new interval set
RunTimerEffect ==
  /\ view = "auth"
  /\ timerDue
  /\ timerDue' = FALSE
  /\ IF TimerInstalled(authState) THEN checkAndRefreshToken(clock) ELSE net' = net
  /\ UNCHANGED <<authState, backup, client, authStep, events, lastEvent, clock, calls,
                 authFrame>>

\* a minute passes; the interval, if set, calls checkAndRefreshToken
Tick ==
  /\ view = "auth"
  /\ ~timerDue
  /\ clock < MaxClock
  /\ clock' = clock + PollEvery
  /\ IF TimerInstalled(authState) THEN checkAndRefreshToken(clock') ELSE net' = net
  /\ UNCHANGED <<authState, backup, client, authStep, events, lastEvent, timerDue, calls,
                 authFrame>>

\* the timer's refresh is answered: the client keeps the new session and
\* tells the listener; an error is only logged, but a refused token makes
\* the client drop its session
TimerRefreshDone(m) ==
  /\ view = "auth"
  /\ BagIn(m, net)
  /\ m.kind = "refreshSession" /\ m.via = "timer"
  /\ net' = Remove(m)
  /\ IF m.err = FailedToFetch
     THEN UNCHANGED <<authState, backup, client, lastEvent, timerDue>>
     ELSE LET e == IF m.err = NoErr THEN Event("TOKEN_REFRESHED", m.data[1].session)
                   ELSE Event("SIGNED_OUT", NoSession)
          IN /\ client' = e.session
             /\ lastEvent' = e
             /\ authState' = ListenerState(authState, e)
             /\ backup' = ListenerBackup(backup, e, clock)
             /\ timerDue' = (timerDue \/ DepsChanged(authState, authState'))
  /\ UNCHANGED <<authStep, events, clock, calls, authFrame>>

\* the session manager not mounted
AuthUnused ==
  /\ authState = AuthInitial
  /\ backup = NoBackup
  /\ client = NoSession
  /\ authStep = "mount"
  /\ events = <<>>
  /\ lastEvent = NoEvent
  /\ clock = 0
  /\ timerDue = FALSE

\* ------------------------------------------ App.tsx: matchesDateFilter
\* An instant is a number of quarter days on the local clock; a calendar
\* day d starts at instant d * DayLen.  dueDate is a day ('YYYY-MM-DD'),
\* dueTime a quarter of the day ('HH:MM'), scheduledFor and createdAt are
\* instants.  new Date('YYYY-MM-DD') is midnight UTC of that day, which the
\* local clock shows `tz` quarters later.
DayLen == 4
EndOfDay == DayLen - 1               \* setHours(23, 59, 59)
NoDate == -1                         \* dueDate / dueTime / scheduledFor undefined
DateFilters == {"all", "today", "tomorrow", "week", "overdue", "future"}

\* new Date(t.getFullYear(), t.getMonth(), t.getDate())
StartOfDay(t) == (t \div DayLen) * DayLen

\* new Date(dueDate)
ParseDate(dueDate, tz) == dueDate * DayLen + tz

\* date.setHours(hours, ...) on the local clock
SetHours(t, hours) == StartOfDay(t) + hours

matchesDateFilter(todo, filter, now) ==
  LET today == StartOfDay(now.at)
      tomorrow == today + DayLen
      weekFromNow == today + 7 * DayLen
      scheduledDate == StartOfDay(todo.scheduledFor)
      dueDate == ParseDate(todo.dueDate, now.tz)
  IN CASE filter = "all" -> TRUE
       [] filter = "today" ->
            IF todo.scheduledFor # NoDate THEN scheduledDate = today
            ELSE IF todo.dueDate # NoDate THEN dueDate = today
            ELSE IF todo.dueTime # NoDate THEN StartOfDay(todo.createdAt) = today
            ELSE FALSE
       [] filter = "tomorrow" ->
            IF todo.scheduledFor # NoDate THEN scheduledDate = tomorrow
            ELSE IF todo.dueDate # NoDate THEN dueDate = tomorrow
            ELSE FALSE
       [] filter = "week" ->
            IF todo.scheduledFor # NoDate
            THEN scheduledDate >= today /\ scheduledDate < weekFromNow
            ELSE IF todo.dueDate # NoDate THEN dueDate >= today /\ dueDate < weekFromNow
            ELSE FALSE
       [] filter = "overdue" ->
            IF todo.completed THEN FALSE
            ELSE IF todo.scheduledFor # NoDate THEN todo.scheduledFor < now.at
            ELSE IF todo.dueDate # NoDate
            THEN SetHours(dueDate, IF todo.dueTime # NoDate THEN todo.dueTime ELSE EndOfDay)
                   < now.at
            ELSE IF todo.dueTime # NoDate THEN SetHours(now.at, todo.dueTime) < now.at
            ELSE FALSE
       [] filter = "future" ->
            IF todo.scheduledFor # NoDate THEN scheduledDate > today
            ELSE IF todo.dueDate # NoDate THEN dueDate > today
            ELSE FALSE
       [] OTHER -> TRUE

\* the tasks and the clock readings the filter is tried on
FilterDays == 0..MaxDay
FilterInstants == {d * DayLen + h : d \in {0, 1, 2, MaxDay}, h \in {0, 2}}
FilterTodos ==
  [completed : BOOLEAN,
   scheduledFor : {NoDate} \cup FilterInstants,
   dueDate : {NoDate} \cup FilterDays,
   dueTime : {NoDate, 1, 2},
   createdAt : {0, DayLen + 1}]
FilterNows == [at : {DayLen + 1, DayLen + 2}, tz : {-1, 0, 1}]

\* what choosing a date filter leaves alone
filterFrame == <<view, userId, dbTodos, nextId, todos, loading, error, net, notif,
                 outcome, calls, dbRecords, records, editingId, actionError, adminVars,
                 authVars, loginVars>>

\* the date filter's select box: setDateFilter(filter), then filteredTodos
\* is computed again
SetDateFilter(filter) ==
  /\ view = "filter"
  /\ filter # dateFilter
  /\ dateFilter' = filter
  /\ shown' = matchesDateFilter(filterTodo, filter, filterNow)
  /\ UNCHANGED <<filterTodo, filterNow, overdue, progressData, filterFrame>>

\* the indicator without its first line `if (todo.completed) return false`
isOverdue_IgnoresCompleted(todo, now) ==
  IF todo.scheduledFor # NoDate THEN now.at > todo.scheduledFor
  ELSE IF todo.dueDate # NoDate THEN now.at > ParseDate(todo.dueDate, now.tz)
  ELSE todo.dueTime # NoDate /\ now.at > SetHours(now.at, todo.dueTime)

\* TodoItem.tsx: the per-item overdue indicator
isOverdue(todo, now) ==
  IF todo.completed THEN FALSE
  ELSE IF todo.scheduledFor # NoDate THEN now.at > todo.scheduledFor
  ELSE IF todo.dueDate # NoDate
  THEN now.at > (IF todo.dueTime # NoDate
                 THEN SetHours(ParseDate(todo.dueDate, now.tz), todo.dueTime)
                 ELSE ParseDate(todo.dueDate, now.tz))
  ELSE IF todo.dueTime # NoDate THEN now.at > SetHours(now.at, todo.dueTime)
  ELSE FALSE

\* the list renders the item of the task it keeps
RenderTodoItem ==
  /\ view = "filter"
  /\ shown
  /\ overdue' = isOverdue(filterTodo, filterNow)
  /\ UNCHANGED <<dateFilter, filterTodo, filterNow, shown, progressData, filterFrame>>

\* the date filter not in use
FilterUnused ==
  /\ dateFilter = "all"
  /\ filterTodo = [completed |-> FALSE, scheduledFor |-> NoDate, dueDate |-> NoDate,
                   dueTime |-> NoDate, createdAt |-> 0]
  /\ filterNow = [at |-> 0, tz |-> 0]
  /\ shown = TRUE
  /\ overdue = FALSE
  /\ progressData = <<>>

\* ------------------------------------------------ AdminLoginPage.tsx
AuthenticationFailed == "Authentication failed"
VerifyFailed == "Failed to verify admin status"

\* useState initial values of the page; `authed` is the user signIn
\* authenticated in the running submission, `user` the one getUser returned,
\* `onSuccess` whether the success callback has been invoked
LoginInitial ==
  [step |-> "idle", isLoading |-> FALSE, error |-> NoErr, authed |-> NoUser,
   user |-> NoUser, onSuccess |-> FALSE]

LoginUnused == login = LoginInitial

\* catch (setError) and finally (setIsLoading(false)) of handleSubmit
LoginFails(l, message) ==
  [l EXCEPT !.step = "idle", !.isLoading = FALSE, !.error = message]

\* what a step of the admin login page leaves alone
loginFrame == <<view, userId, dbTodos, nextId, todos, loading, error, notif, outcome,
                dbRecords, records, editingId, actionError, adminVars, filterVars,
                authStep, events, clock>>

\* handleSubmit up to the response of signIn's signInWithPassword
handleSubmit(u) ==
  /\ view = "login"
  /\ login.step = "idle"
  /\ ~login.onSuccess
  /\ CanCall
  /\ calls' = calls + 1
  /\ login' = [login EXCEPT !.step = "signIn", !.isLoading = TRUE, !.error = NoErr,
                            !.authed = NoUser, !.user = NoUser]
  /\ authState' = [authState EXCEPT !.error = NoErr]
  /\ LET call == MsgVia("signInWithPassword", u, NoId, NoUpd, "adminLogin")
     IN \/ net' = Send(Reply(call, <<[session |-> NewSession(u, clock)]>>, NoErr))
        \/ net' = Send(Reply(call, <<>>, InvalidLogin))
  /\ UNCHANGED <<backup, client, lastEvent, timerDue, loginFrame>>

\* the rest of signIn (it rethrows its error), then handleSubmit up to the
\* response of supabase.auth.getUser()
LoginSignInDone(m) ==
  /\ view = "login"
  /\ BagIn(m, net)
  /\ m.kind = "signInWithPassword"
  /\ IF m.err # NoErr
     THEN /\ authState' = [authState EXCEPT !.error = m.err]
          /\ login' = LoginFails(login, m.err)
          /\ net' = Remove(m)
          /\ UNCHANGED <<backup, client, lastEvent, timerDue>>
     ELSE LET e == Event("SIGNED_IN", m.data[1].session)
              q == MsgVia("getUser", m.uid, NoId, NoUpd, "adminLogin")
          IN /\ client' = e.session
             /\ lastEvent' = e
             /\ authState' = ListenerState(authState, e)
             /\ backup' = saveSessionToStorage(e.session, clock)
             /\ timerDue' = (timerDue \/ DepsChanged(authState, authState'))
             /\ login' = [login EXCEPT !.step = "getUser", !.authed = m.uid]
             /\ \/ net' = Remove(m) (+) SetToBag({Reply(q, <<[user |-> m.uid]>>, NoErr)})
                \/ net' = Remove(m) (+) SetToBag({Reply(q, <<>>, FailedToFetch)})
  /\ UNCHANGED <<calls, loginFrame>>

\* `if (!user) throw`, else the select of the user's flags (.single())
LoginGetUserDone(m) ==
  /\ view = "login"
  /\ BagIn(m, net)
  /\ m.kind = "getUser"
  /\ IF m.data = <<>>
     THEN /\ login' = LoginFails(login, AuthenticationFailed)
          /\ net' = Remove(m)
     ELSE LET user == m.data[1].user
              q == MsgVia("selectProfile", user, NoId, NoUpd, "adminLogin")
              rows == {a \in Accounts : a = user /\ ProfilesSelectPolicy(a, user)}
          IN /\ login' = [login EXCEPT !.step = "profile", !.user = user]
             /\ \/ net' = Remove(m) (+) SetToBag({Reply(q,
                            IF rows = {} THEN <<>>
                            ELSE <<[is_admin |-> profiles[user].is_admin]>>,
                            IF rows = {} THEN NoRows ELSE NoErr)})
                \/ net' = Remove(m) (+) SetToBag({Reply(q, <<>>, JWTExpired)})
  /\ UNCHANGED <<authVars, calls, loginFrame>>

\* !profile?.is_admin decides between the sign-out and onSuccess()
GrantsAccess(profile) == profile.is_admin

\* `if (profileError) throw`; a user without the flag is signed out
\* (supabase.auth.signOut()); otherwise onSuccess()
LoginProfileDone(m) ==
  /\ view = "login"
  /\ BagIn(m, net)
  /\ m.kind = "selectProfile"
  /\ IF m.err # NoErr
     THEN /\ login' = LoginFails(login, VerifyFailed)
          /\ net' = Remove(m)
     ELSE IF ~GrantsAccess(m.data[1])
     THEN LET q == MsgVia("signOut", m.uid, NoId, NoUpd, "adminLogin")
          IN /\ login' = [login EXCEPT !.step = "signOut"]
             /\ \/ net' = Remove(m) (+) SetToBag({Reply(q, <<>>, NoErr)})
                \/ net' = Remove(m) (+) SetToBag({Reply(q, <<>>, FailedToFetch)})
     ELSE /\ login' = [login EXCEPT !.step = "idle", !.isLoading = FALSE,
                                    !.onSuccess = TRUE]
          /\ net' = Remove(m)
  /\ UNCHANGED <<authVars, calls, loginFrame>>

\* the sign-out resolves (its error is not read), then the throw
LoginSignOutDone(m) ==
  /\ view = "login"
  /\ BagIn(m, net)
  /\ m.kind = "signOut"
  /\ net' = Remove(m)
  /\ login' = LoginFails(login, AccessDenied)
  /\ IF m.err # NoErr
     THEN UNCHANGED <<authState, backup, client, lastEvent, timerDue>>
     ELSE LET e == Event("SIGNED_OUT", NoSession)
          IN /\ client' = NoSession
             /\ lastEvent' = e
             /\ authState' = ListenerState(authState, e)
             /\ backup' = ListenerBackup(backup, e, clock)
             /\ timerDue' = (timerDue \/ DepsChanged(authState, authState'))
  /\ UNCHANGED <<calls, loginFrame>>

\* ------------------------------------------- the admin panel's behaviours
\* rows deleted before the behaviour starts: their identifiers lie below the
\* ones handed out during it
PastTodo(id, uid) == TodoRow(id, TodoInsertData(uid))
PastRecord(id, uid) ==
  RecordRow(id, RecordInsertData(uid,
    [date |-> 10, startBalance |-> 5, endBalance |-> 3, workHours |-> 8,
     office |-> <<"H", "Q">>]))

InitialDeleted ==
  {DeletedRow(-1, "u1", "todos", PastTodo(-1, "u1")),
   DeletedRow(-2, "u2", "todos", PastTodo(-2, "u2")),
   DeletedRow(-3, "u1", "internet_records", PastRecord(-3, "u1"))}

\* the admin panel freshly mounted in the tab of u1 (admin or not) or of
\* nobody, over a backend holding a task of u2 and three soft-deleted rows
InitAdmin ==
  /\ view = "admin"
  /\ userId \in {"u1", NoUser}
  /\ dbTodos = {TodoRow(1, TodoInsertData("u2"))}
  /\ nextId = 2
  /\ todos = <<>>
  /\ loading = TRUE
  /\ error = NoErr
  /\ net = EmptyBag
  /\ notif = FALSE
  /\ outcome = "none"
  /\ calls = 0
  /\ dbRecords = {}
  /\ records = <<>>
  /\ editingId = NoId
  /\ actionError = NoErr
  /\ \E flag \in BOOLEAN :
       profiles = [a \in Accounts |->
                     [is_admin |-> (a = SuperAdminUser \/ (a = "u1" /\ flag)),
                      is_super_admin |-> a = SuperAdminUser]]
  /\ auditLogs = <<>>
  /\ deletedRecords = InitialDeleted
  /\ admin = AdminInitial
  /\ adminStep = "mount"
  /\ restoring = NoId
  /\ deleting = NoId
  /\ lastCall = NoCall
  /\ AuthUnused
  /\ FilterUnused
  /\ LoginUnused

NextAdmin ==
  \/ LoadAdminDataCall
  \/ \E m \in BagToSet(net) :
       \/ GetUserDone(m)
       \/ CheckAdminStatusDone(m)
       \/ FetchUsersDone(m)
       \/ FetchAuditLogsDone(m)
       \/ FetchDeletedRecordsDone(m)
       \/ FetchStatsDone(m)
       \/ RestoreInsertDone(m)
       \/ RestoreDeleteDone(m)
       \/ PermanentlyDeleteDone(m)
  \/ \E d \in admin.deletedRecords :
       \/ RestoreRecordCall(d)
       \/ PermanentlyDeleteRecordCall(d.id)
  \/ \E r \in dbTodos : OwnerDeletesTodo(r.id)
  \/ \E d \in deletedRecords : OtherAdminPurges(d.id)

SpecAdmin == InitAdmin /\ [][NextAdmin]_vars

\* ------------------------------------------- statements of any caller
\* The backend serves every authenticated caller's statements and rpc calls
\* directly; the policies and the function bodies are all that stands
\* between a caller and the tables.  An account's e-mail address is
\* identified with the account.
AllTables == Tables \cup {"user_profiles", "audit_logs", "deleted_records"}
Emails == Accounts \cup {"nobody"}
\* who made the call, which call, and the rows it returned
Called(auth, call, table, rows) ==
  [caller |-> auth, call |-> call, table |-> table, rows |-> rows]

\* what a statement of the backend leaves alone: every page's state
backendFrame == <<view, userId, todos, loading, error, net, notif, outcome, records,
                  editingId, actionError, admin, adminStep, restoring, deleting,
                  authVars, filterVars, loginVars>>

ProfileRow(a) ==
  [user_id |-> a, is_admin |-> profiles[a].is_admin,
   is_super_admin |-> profiles[a].is_super_admin]

\* the rows of `table` that the select policies show to caller `auth`
Visible(table, auth) ==
  CASE table = "todos" -> {r \in dbTodos : AdminTodosSelectPolicy(r, auth)}
    [] table = "internet_records" -> {r \in dbRecords : AdminRecordsSelectPolicy(r, auth)}
    [] table = "user_profiles" ->
         {ProfileRow(a) : a \in {x \in Accounts : ProfilesSelectPolicy(x, auth)}}
    [] table = "audit_logs" -> {r \in SeqToSet(auditLogs) : AuditLogsSelectPolicy(r, auth)}
    [] table = "deleted_records" ->
         {r \in deletedRecords : DeletedRecordsSelectPolicy(r, auth)}

\* select * from <table>
Select(auth, table) ==
  /\ view = "backend"
  /\ AdminCanCall
  /\ calls' = calls + 1
  /\ lastCall' = Called(auth, "Select", table, Visible(table, auth))
  /\ UNCHANGED <<backendFrame, dbTodos, dbRecords, nextId, profiles, auditLogs,
                 deletedRecords>>

\* the row a caller inserts for `owner`
NewRow(table, id, owner) ==
  IF table = "todos" THEN TodoRow(id, TodoInsertData(owner)) ELSE PastRecord(id, owner)

\* insert into <table> (user_id, ...) values (owner, ...)
InsertRow(auth, table, owner) ==
  /\ view = "backend"
  /\ AdminCanCall
  /\ calls' = calls + 1
  /\ nextId <= MaxRows
  /\ LET row == NewRow(table, nextId, owner)
     IN /\ IF table = "todos" THEN TodosInsertPolicy(row, auth)
           ELSE /\ RecordsInsertPolicy(row, auth)
                /\ \A r \in dbRecords : UniqueKey(r) # UniqueKey(row)
        /\ IF table = "todos"
           THEN dbTodos' = dbTodos \cup {row} /\ UNCHANGED dbRecords
           ELSE dbRecords' = dbRecords \cup {row} /\ UNCHANGED dbTodos
        /\ nextId' = nextId + 1
        /\ create_audit_log(auth, table, "INSERT", NULL, row)
  /\ UNCHANGED <<backendFrame, profiles>>
  /\ lastCall' = Called(auth, "InsertRow", "", {})

\* the update a client sends: a toggled task, a usage record's edited hours
UpdatedRow(table, old) ==
  IF table = "todos"
  THEN [old EXCEPT !.completed = ~old.completed,
                   !.completed_at = IF old.completed THEN NoTime ELSE 1]
  ELSE [old EXCEPT !.work_hours = 9]

\* update <table> set ... where id = id
UpdateRow(auth, table, id) ==
  /\ view = "backend"
  /\ AdminCanCall
  /\ calls' = calls + 1
  /\ \E old \in IF table = "todos" THEN dbTodos ELSE dbRecords :
       /\ old.id = id
       /\ IF table = "todos" THEN TodosUpdatePolicy(old, auth)
          ELSE RecordsUpdatePolicy(old, auth)
       /\ IF table = "todos"
          THEN /\ dbTodos' = (dbTodos \ {old}) \cup {UpdatedRow(table, old)}
               /\ UNCHANGED dbRecords
          ELSE /\ dbRecords' = (dbRecords \ {old}) \cup {UpdatedRow(table, old)}
               /\ UNCHANGED dbTodos
       /\ create_audit_log(auth, table, "UPDATE", old, UpdatedRow(table, old))
  /\ UNCHANGED <<backendFrame, nextId, profiles>>
  /\ lastCall' = Called(auth, "UpdateRow", "", {})

\* delete from <table> where id = id
DeleteRow(auth, table, id) ==
  /\ view = "backend"
  /\ AdminCanCall
  /\ calls' = calls + 1
  /\ nextId <= MaxRows
  /\ \E old \in IF table = "todos" THEN dbTodos ELSE dbRecords :
       /\ old.id = id
       /\ IF table = "todos" THEN TodosDeletePolicy(old, auth)
          ELSE RecordsDeletePolicy(old, auth)
       /\ IF table = "todos"
          THEN dbTodos' = dbTodos \ {old} /\ UNCHANGED dbRecords
          ELSE dbRecords' = dbRecords \ {old} /\ UNCHANGED dbTodos
       /\ create_audit_log(auth, table, "DELETE", old, NULL)
  /\ UNCHANGED <<backendFrame, profiles>>
  /\ lastCall' = Called(auth, "DeleteRow", "", {})

\* delete from deleted_records where id = id
DeleteDeletedRecord(auth, id) ==
  /\ view = "backend"
  /\ AdminCanCall
  /\ calls' = calls + 1
  /\ \E d \in deletedRecords :
       /\ d.id = id
       /\ DeletedRecordsDeletePolicy(d, auth)
       /\ deletedRecords' = deletedRecords \ {d}
  /\ UNCHANGED <<backendFrame, dbTodos, dbRecords, nextId, profiles, auditLogs>>
  /\ lastCall' = Called(auth, "DeleteDeletedRecord", "", {})

\* update user_profiles set is_admin = flag where user_id = target, under
\* "Users can update their own profile" and "Super admin can manage all
\* profiles": no policy and no trigger guards the is_admin column
UpdateProfile(auth, target, flag) ==
  /\ view = "backend"
  /\ AdminCanCall
  /\ calls' = calls + 1
  /\ ProfilesUpdatePolicy(target, auth)
  /\ profiles' = [profiles EXCEPT ![target].is_admin = flag]
  /\ UNCHANGED <<backendFrame, dbTodos, dbRecords, nextId, auditLogs, deletedRecords>>
  /\ lastCall' = Called(auth, "UpdateProfile", "", {})

\* rpc make_user_admin(user_email): SECURITY DEFINER, no check of the caller
make_user_admin(auth, user_email) ==
  /\ view = "backend"
  /\ AdminCanCall
  /\ calls' = calls + 1
  /\ profiles' = [a \in Accounts |->
                    IF a = user_email THEN [profiles[a] EXCEPT !.is_admin = TRUE]
                    ELSE profiles[a]]
  /\ UNCHANGED <<backendFrame, dbTodos, dbRecords, nextId, auditLogs, deletedRecords>>
  /\ lastCall' = Called(auth, "make_user_admin", "", {})

\* rpc promote_user_to_admin(target_email): raises unless the caller's
\* profile is a super admin's and the target exists
promote_user_to_admin(auth, target_email) ==
  /\ view = "backend"
  /\ AdminCanCall
  /\ calls' = calls + 1
  /\ IF is_super_admin(auth) /\ target_email \in Accounts
     THEN profiles' = [profiles EXCEPT ![target_email].is_admin = TRUE]
     ELSE UNCHANGED profiles
  /\ UNCHANGED <<backendFrame, dbTodos, dbRecords, nextId, auditLogs, deletedRecords>>
  /\ lastCall' = Called(auth, "promote_user_to_admin", "", {})

\* rpc demote_admin_user(target_email): as above, and a super admin cannot
\* be demoted
demote_admin_user(auth, target_email) ==
  /\ view = "backend"
  /\ AdminCanCall
  /\ calls' = calls + 1
  /\ IF /\ is_super_admin(auth)
        /\ target_email \in Accounts
        /\ ~is_super_admin(target_email)
     THEN profiles' = [profiles EXCEPT ![target_email].is_admin = FALSE]
     ELSE UNCHANGED profiles
  /\ UNCHANGED <<backendFrame, dbTodos, dbRecords, nextId, auditLogs, deletedRecords>>
  /\ lastCall' = Called(auth, "demote_admin_user", "", {})

\* rpc upsert_user_profile(p_user_id, ..., p_is_admin, p_is_super_admin):
\* SECURITY DEFINER, no check of the caller
upsert_user_profile(auth, p_user_id, p_is_admin, p_is_super_admin) ==
  /\ view = "backend"
  /\ AdminCanCall
  /\ calls' = calls + 1
  /\ profiles' = [profiles EXCEPT ![p_user_id] =
                    [is_admin |-> p_is_admin, is_super_admin |-> p_is_super_admin]]
  /\ UNCHANGED <<backendFrame, dbTodos, dbRecords, nextId, auditLogs, deletedRecords>>
  /\ lastCall' = Called(auth, "upsert_user_profile", "", {})

\* a statement or rpc call made with the token of `auth`
CallBy(auth) ==
  \/ \E table \in AllTables : Select(auth, table)
  \/ \E table \in Tables, owner \in Accounts : InsertRow(auth, table, owner)
  \/ \E table \in Tables, id \in 1..MaxRows : UpdateRow(auth, table, id)
  \/ \E table \in Tables, id \in 1..MaxRows : DeleteRow(auth, table, id)
  \/ \E id \in 1..(MaxRows + 1) : DeleteDeletedRecord(auth, id)
  \/ \E target \in Accounts, flag \in BOOLEAN : UpdateProfile(auth, target, flag)
  \/ \E user_email \in Emails : make_user_admin(auth, user_email)
  \/ \E target_email \in Emails : promote_user_to_admin(auth, target_email)
  \/ \E target_email \in Emails : demote_admin_user(auth, target_email)
  \/ \E p_user_id \in Accounts, a, s \in BOOLEAN :
       upsert_user_profile(auth, p_user_id, a, s)

\* the admin variant's backend holding a task of u2 and the bootstrap
\* super admin's profile
InitBackend ==
  /\ view = "backend"
  /\ userId = NoUser
  /\ dbTodos = {TodoRow(1, TodoInsertData("u2"))}
  /\ nextId = 2
  /\ todos = <<>>
  /\ loading = TRUE
  /\ error = NoErr
  /\ net = EmptyBag
  /\ notif = FALSE
  /\ outcome = "none"
  /\ calls = 0
  /\ dbRecords = {}
  /\ records = <<>>
  /\ editingId = NoId
  /\ actionError = NoErr
  /\ profiles = [a \in Accounts |->
                   [is_admin |-> a = SuperAdminUser, is_super_admin |-> a = SuperAdminUser]]
  /\ auditLogs = <<>>
  /\ deletedRecords = {}
  /\ admin = AdminInitial
  /\ adminStep = "mount"
  /\ restoring = NoId
  /\ deleting = NoId
  /\ lastCall = NoCall
  /\ AuthUnused
  /\ FilterUnused
  /\ LoginUnused

NextBackend == \E auth \in Accounts : CallBy(auth)

SpecBackend == InitBackend /\ [][NextBackend]_vars

\* ------------------------------------------------ App.tsx: progressData
\* Math.round of the quotient a / b of two naturals, b > 0
RoundDiv(a, b) == (2 * a + b) \div (2 * b)

\* the quotient is taken whatever the total: 0 / 0 is NaN
Percentage_Unguarded(completed, total) ==
  IF total = 0 THEN NaN ELSE Num(RoundDiv(completed * 100, total))

\* total > 0 ? Math.round((completed / total) * 100) : 0
Percentage(completed, total) ==
  IF total > 0 THEN Num(RoundDiv(completed * 100, total)) ELSE Num(0)

\* date.toDateString(): the calendar day of an instant
DayOf(t) == t \div DayLen

\* the seven entries, from six days ago to today
ProgressData(list, now) ==
  [k \in 1..7 |->
     LET date == DayOf(now.at) - (7 - k)
         dayTodos == {i \in 1..Len(list) : DayOf(list[i].createdAt) = date}
         completed == Cardinality({i \in dayTodos : list[i].completed})
         total == Cardinality(dayTodos)
     IN [date |-> date, completed |-> completed, total |-> total,
         percentage |-> Percentage(completed, total)]]

\* the lists the chart is tried on: up to MaxTasks tasks, open or completed,
\* created eight days ago, six days ago or today
ProgressNow == [at |-> (MaxDay - 1) * DayLen + 2, tz |-> 0]
ProgressTasks ==
  [completed : BOOLEAN,
   createdAt : {d * DayLen + 1 : d \in {MaxDay - 9, MaxDay - 7, MaxDay - 1}}]
ProgressLists ==
  UNION {[1..n -> ProgressTasks] : n \in 0..MaxTasks}
ProgressTodo(list, i) ==
  [id |-> i, completed |-> list[i].completed, createdAt |-> list[i].createdAt,
   completedAt |-> IF list[i].completed THEN list[i].createdAt ELSE NoTime]

\* the chart's memo is computed from the task list
ComputeProgress ==
  /\ view = "progress"
  /\ progressData' = ProgressData(todos, filterNow)
  /\ UNCHANGED <<dateFilter, filterTodo, filterNow, shown, overdue, filterFrame>>

\* ------------------------------------------------ office breakdowns
\* the sum of the usage of the records at the given positions
RECURSIVE UsageOf(_, _)
UsageOf(recs, positions) ==
  IF positions = {} THEN 0
  ELSE LET i == CHOOSE x \in positions : TRUE
       IN recs[i].usage + UsageOf(recs, positions \ {i})

\* the reduce of the monitoring page: a record is counted under the first
\* key already there that officeNamesMatch its office, else under its own
OfficeKey(recs, i) ==
  LET first == CHOOSE j \in 1..i :
                 /\ officeNamesMatch(recs[j].office, recs[i].office)
                 /\ \A k \in 1..(j - 1) : ~officeNamesMatch(recs[k].office, recs[i].office)
  IN recs[first].office

\* the reduce of the export page: a record is counted under its office as
\* stored
FilteredOfficeKey(recs, i) == recs[i].office

\* an office breakdown: per key the number of records and their usage
Breakdown(recs, Key(_, _)) ==
  LET keys == {Key(recs, i) : i \in 1..Len(recs)}
  IN [k \in keys |->
        LET positions == {i \in 1..Len(recs) : Key(recs, i) = k}
        IN [records |-> Cardinality(positions), usage |-> UsageOf(recs, positions)]]

\* stats.officeBreakdown of the monitoring page
officeBreakdown(recs) == Breakdown(recs, OfficeKey)

\* filteredStats.officeBreakdown of the export page (selectedOffice 'All',
\* filterType 'all'), which the exported workbook lists in its office sheet
filteredOfficeBreakdown(recs) == Breakdown(recs, FilteredOfficeKey)

\* ------------------------------------------------------- specification
Responses == BagToSet(net)

\* the backend as the tab finds it: empty, or holding a task of user u1
InitialTodos == {{}, {TodoRow(1, TodoInsertData("u1"))}}

\* the backend without the admin variant's tables, the admin panel not mounted
AdminUnused ==
  /\ profiles = [a \in Accounts |-> [is_admin |-> FALSE, is_super_admin |-> FALSE]]
  /\ auditLogs = <<>>
  /\ deletedRecords = {}
  /\ admin = AdminInitial
  /\ adminStep = "mount"
  /\ restoring = NoId
  /\ deleting = NoId
  /\ lastCall = NoCall

Init ==
  /\ view \in Views
  /\ userId = NoUser
  /\ dbTodos \in InitialTodos
  /\ dbTodos # {} => view = "tasks"
  /\ nextId = Cardinality(dbTodos) + 1
  /\ todos = <<>>
  /\ loading = TRUE
  /\ error = NoErr
  /\ net = EmptyBag
  /\ notif = FALSE
  /\ outcome = "none"
  /\ calls = 0
  /\ dbRecords = {}
  /\ records = <<>>
  /\ editingId = NoId
  /\ actionError = NoErr
  /\ AdminUnused
  /\ AuthUnused
  /\ FilterUnused
  /\ LoginUnused

NextTasks ==
  \/ \E u \in Users : SignIn(u)
  \/ SignOut
  \/ RealtimeCallback
  \/ AddTodoCall
  \/ \E id \in 1..MaxRows, now \in Times : ToggleTodoCall(id, now)
  \/ \E id \in 1..MaxRows : DeleteTodoCall(id)
  \/ \E m \in Responses : FetchTodosDone(m)
  \/ \E m \in Responses : AddTodoDone(m)
  \/ \E m \in Responses : ToggleTodoDone(m)
  \/ \E m \in Responses : DeleteTodoDone(m)
  \/ OtherTabAddTodo
  \/ \E r \in dbTodos, seen \in BOOLEAN, now \in Times : OtherTabToggleTodo(r, seen, now)
  \/ \E r \in dbTodos : OtherTabDeleteTodo(r)

NextLocal ==
  \/ \E now \in Times : LocalAddTodo(now)
  \/ \E id \in 1..MaxRows, now \in Times : LocalToggleTodo(id, now)
  \/ \E id \in 1..MaxRows : LocalDeleteTodo(id)

NextInternet ==
  \/ \E u \in Users : MountInternetPage(u)
  \/ LogoutInternetPage
  \/ RecordsRealtimeCallback
  \/ \E d \in Dates, sb \in StartTexts, eb \in EndTexts, wh \in HoursTexts,
        o \in OfficeTexts : HandleSubmit(d, sb, eb, wh, o)
  \/ \E id \in 1..MaxRows : HandleEdit(id)
  \/ HandleCancelEdit
  \/ \E id \in 1..MaxRows : HandleConfirmDelete(id)
  \/ \E m \in Responses : FetchRecordsDone(m)
  \/ \E m \in Responses : RecordWriteDone(m)
  \/ \E m \in Responses : DeleteRecordChecked(m)
  \/ \E m \in Responses : DeleteRecordDone(m)
  \/ \E d \in Dates, sb \in StartTexts, eb \in EndTexts, wh \in HoursTexts,
        o \in OfficeTexts : OtherTabAddRecord(d, sb, eb, wh, o)
  \/ \E r \in dbRecords, d \in Dates, sb \in StartTexts, eb \in EndTexts,
        wh \in HoursTexts, o \in OfficeTexts : OtherTabUpdateRecord(r, d, sb, eb, wh, o)
  \/ \E r \in dbRecords : OtherTabDeleteRecord(r)

Next == NextTasks \/ NextLocal \/ NextInternet

Spec == Init /\ [][Next]_vars

\* the session manager freshly mounted in a tab whose auth client holds no
\* session, one about to expire or a fresh one, with any kind of backup
InitAuth ==
  /\ view = "auth"
  /\ userId = NoUser
  /\ dbTodos = {}
  /\ nextId = 1
  /\ todos = <<>>
  /\ loading = TRUE
  /\ error = NoErr
  /\ net = EmptyBag
  /\ notif = FALSE
  /\ outcome = "none"
  /\ calls = 0
  /\ dbRecords = {}
  /\ records = <<>>
  /\ editingId = NoId
  /\ actionError = NoErr
  /\ AdminUnused
  /\ FilterUnused
  /\ LoginUnused
  /\ authState = AuthInitial
  /\ client \in {NoSession, Session("u1", 1), Session("u1", TokenLifetime)}
  /\ backup \in {NoBackup, Garbage,
                 [item |-> "json", session |-> Session("u1", TokenLifetime), saved_at |-> 0],
                 [item |-> "json", session |-> Session("u1", TokenLifetime),
                  saved_at |-> 0 - MaxAge - 1]}
  /\ authStep = "mount"
  /\ events = <<>>
  /\ lastEvent = NoEvent
  /\ clock = 0
  /\ timerDue = FALSE

NextAuth ==
  \/ MountAuth
  \/ GetSessionOk
  \/ \E e \in LookupErrors : GetSessionFails(e)
  \/ \E e \in LookupErrors : GetSessionStartsRefresh(e)
  \/ \E m \in BagToSet(net) : BackupRefreshOk(m)
  \/ \E m \in BagToSet(net) : BackupRefreshFails(m)
  \/ DeliverEvent
  \/ \E u \in Users : signInCall(u)
  \/ \E m \in BagToSet(net) : signInDone(m)
  \/ signOutCall
  \/ \E m \in BagToSet(net) : signOutDone(m)
  \/ \E u \in Users : OtherTabSignsIn(u)
  \/ OtherTabSignsOut
  \/ RunTimerEffect
  \/ Tick
  \/ \E m \in BagToSet(net) : TimerRefreshDone(m)

SpecAuth == InitAuth /\ [][NextAuth]_vars

\* the task list's date filter over one task and one reading of the clock
InitFilter ==
  /\ view = "filter"
  /\ userId = NoUser
  /\ dbTodos = {}
  /\ nextId = 1
  /\ todos = <<>>
  /\ loading = TRUE
  /\ error = NoErr
  /\ net = EmptyBag
  /\ notif = FALSE
  /\ outcome = "none"
  /\ calls = 0
  /\ dbRecords = {}
  /\ records = <<>>
  /\ editingId = NoId
  /\ actionError = NoErr
  /\ AdminUnused
  /\ AuthUnused
  /\ dateFilter = "all"
  /\ filterTodo \in FilterTodos
  /\ filterNow \in FilterNows
  /\ shown = TRUE
  /\ overdue = FALSE
  /\ progressData = <<>>
  /\ LoginUnused

NextFilter ==
  \/ \E f \in DateFilters : SetDateFilter(f)
  \/ RenderTodoItem

SpecFilter == InitFilter /\ [][NextFilter]_vars

\* the progress chart over one task list and one reading of the clock
InitProgress ==
  /\ view = "progress"
  /\ userId = NoUser
  /\ dbTodos = {}
  /\ nextId = 1
  /\ \E list \in ProgressLists : todos = [i \in 1..Len(list) |-> ProgressTodo(list, i)]
  /\ loading = TRUE
  /\ error = NoErr
  /\ net = EmptyBag
  /\ notif = FALSE
  /\ outcome = "none"
  /\ calls = 0
  /\ dbRecords = {}
  /\ records = <<>>
  /\ editingId = NoId
  /\ actionError = NoErr
  /\ AdminUnused
  /\ AuthUnused
  /\ dateFilter = "all"
  /\ filterTodo = [completed |-> FALSE, scheduledFor |-> NoDate, dueDate |-> NoDate,
                   dueTime |-> NoDate, createdAt |-> 0]
  /\ filterNow = ProgressNow
  /\ shown = TRUE
  /\ overdue = FALSE
  /\ progressData = <<>>
  /\ LoginUnused

NextProgress == ComputeProgress

SpecProgress == InitProgress /\ [][NextProgress]_vars

\* the admin login page, nobody signed in; u1 is an admin or not, u2 is not
InitLogin ==
  /\ view = "login"
  /\ userId = NoUser
  /\ dbTodos = {}
  /\ nextId = 1
  /\ todos = <<>>
  /\ loading = TRUE
  /\ error = NoErr
  /\ net = EmptyBag
  /\ notif = FALSE
  /\ outcome = "none"
  /\ calls = 0
  /\ dbRecords = {}
  /\ records = <<>>
  /\ editingId = NoId
  /\ actionError = NoErr
  /\ \E flag \in BOOLEAN :
       profiles = [a \in Accounts |->
                     [is_admin |-> (a = SuperAdminUser \/ (a = "u1" /\ flag)),
                      is_super_admin |-> a = SuperAdminUser]]
  /\ auditLogs = <<>>
  /\ deletedRecords = {}
  /\ admin = AdminInitial
  /\ adminStep = "mount"
  /\ restoring = NoId
  /\ deleting = NoId
  /\ lastCall = NoCall
  /\ AuthUnused
  /\ FilterUnused
  /\ LoginUnused

NextLogin ==
  \/ \E u \in Accounts : handleSubmit(u)
  \/ \E m \in BagToSet(net) :
       \/ LoginSignInDone(m)
       \/ LoginGetUserDone(m)
       \/ LoginProfileDone(m)
       \/ LoginSignOutDone(m)

SpecLogin == InitLogin /\ [][NextLogin]_vars

\* the usage-record page
InitInternet == Init /\ view = "internet"

SpecInternet == InitInternet /\ [][NextInternet]_vars

\* the task list, backed by the hosted backend or by localStorage
NextTodos == NextTasks \/ NextLocal

InitTodos == Init /\ view \in {"tasks", "local"}

SpecTodos == InitTodos /\ [][NextTodos]_vars

\* -------------------------------------------------------------- claims

\* C1: in every reachable state each task, at the backend and in the local
\* collection, has a completion timestamp iff its completion flag is true.
C1_CompletedIffTimestamp ==
  /\ \A r \in dbTodos : r.completed <=> (r.completed_at # NoTime)
  /\ \A i \in 1..Len(todos) : todos[i].completed <=> (todos[i].completedAt # NoTime)

\* a task was toggled to completed at the backend and the tab shows it so
C1_Witness ==
  /\ view = "tasks"
  /\ \E i \in 1..Len(todos) : \E r \in dbTodos :
        /\ r.id = todos[i].id
        /\ r.completed /\ r.completed_at \in Times
        /\ todos[i].completed /\ todos[i].completedAt \in Times

\* C2 (as stated): every stored usage record has usage equal to its start
\* balance minus its end balance, whatever creates and updates were made.
C2_UsageIsStartMinusEnd ==
  \A r \in dbRecords : r.usage = r.start_balance - r.end_balance

\* C3 (as stated): at most one usage record per user, date and office
\* compared case-insensitively.
C3_OnePerUserDateOffice ==
  \A r1, r2 \in dbRecords :
    (/\ r1.user_id = r2.user_id
     /\ r1.date = r2.date
     /\ normalizeOfficeName(r1.office) = normalizeOfficeName(r2.office)) => r1 = r2

\* the local records with the date and, case-insensitively, the office of a payload
LocalMatches(date, office) ==
  {r \in SeqToSet(records) :
     r.date = date /\ normalizeOfficeName(r.office) = normalizeOfficeName(office)}

\* the step issues request m
Issued(m) == CopiesIn(m, net') > CopiesIn(m, net)

\* C4: a submission in create mode whose date and office (compared
\* case-insensitively) match a record of the local collection issues an
\* update of that record and no insert, and once the update has succeeded
\* the form shows the conflict reason.
C4_DuplicateCreateUpdatesExisting ==
  [][/\ \A m \in BagToSet(net') :
          (Issued(m) /\ m.via \in {"create", "existing"})
            => IF LocalMatches(m.upd.date, m.upd.office) = {}
               THEN m.kind = "addRecord"
               ELSE /\ m.kind = "updateRecord"
                    /\ m.id \in {r.id : r \in LocalMatches(m.upd.date, m.upd.office)}
     /\ \A m \in BagToSet(net) :
          (RecordWriteDone(m) /\ m.via = "existing" /\ m.err = NoErr)
            => actionError' = UpdatedExisting]_vars

\* one record was created, a second submission for the same date with
\* office "hq" updated it, and the form shows the conflict reason
C4_Witness ==
  /\ view = "internet"
  /\ nextId = 2
  /\ actionError = UpdatedExisting
  /\ \E r \in dbRecords : r.id = 1 /\ r.office = <<"h", "q">>
  /\ Len(records) = 1 /\ records[1].id = 1 /\ records[1].office = <<"h", "q">>

\* the rows of table todos that a fetch of user u returns, as the hook keeps them
BackendTodos(u) ==
  MapSeq(convertRowToTodo, OrderByCreatedAtDesc({r \in dbTodos : r.user_id = u}))

\* the same for table internet_records: any order the backend may return
BackendRecords(u) ==
  {MapSeq(convertRowToRecord, rows) :
     rows \in OrderedByDateDesc({r \in dbRecords : r.user_id = u})}

\* nothing is in flight: no response outstanding, no realtime callback pending
Quiescent == net = EmptyBag /\ ~notif

\* C5 (as stated): once backend changes have stopped and every request and
\* realtime callback has completed, the local collection equals the
\* backend's rows of the signed-in user.
C5_CacheConverges ==
  (userId # NoUser /\ Quiescent /\ error = NoErr)
    => /\ view = "tasks" => todos = BackendTodos(userId)
       /\ view = "internet" => records \in BackendRecords(userId)

\* the step applies the response m of a successful fetch to the local state
FetchApplied(m) ==
  /\ m.kind \in {"fetchTodos", "fetchRecords"}
  /\ m.err = NoErr
  /\ FetchTodosDone(m) \/ FetchRecordsDone(m)

\* C6 (as stated): whatever the interleaving of fetch responses, the rows a
\* completed fetch puts into the local collection are the rows of the
\* hook's current user.
C6_FetchReplacesWithCurrentUsersRows ==
  [][\A m \in BagToSet(net) :
       (FetchApplied(m) /\ userId # NoUser)
         => /\ \A r \in SeqToSet(m.data) : r.user_id = userId
            /\ m.kind = "fetchTodos" => todos' = MapSeq(convertRowToTodo, m.data)
            /\ m.kind = "fetchRecords" => records' = MapSeq(convertRowToRecord, m.data)]_vars

\* the identifiers stored in a table
Ids(rows) == {r.id : r \in rows}

\* the step is a successful delete call of the tab for identifier id
DeleteCalled(m) ==
  /\ m.kind \in {"deleteTodo", "deleteRecord"}
  /\ m.err = NoErr
  /\ Issued(m)

\* the step applies the response of a successful delete
DeleteApplied(m) ==
  /\ m.kind \in {"deleteTodo", "deleteRecord"}
  /\ m.err = NoErr
  /\ DeleteTodoDone(m) \/ DeleteRecordDone(m)

\* C7: a delete call removes the caller's row with the given identifier at
\* the backend, its response removes that identifier from the local
\* collection, and no step removes a backend row that the caller does not own.
C7_DeleteOnlyOwnRows ==
  [][/\ \A r \in dbTodos : r.id \notin Ids(dbTodos') => r.user_id = userId
     /\ \A r \in dbRecords : r.id \notin Ids(dbRecords') => r.user_id = userId
     /\ \A m \in BagToSet(net') :
          DeleteCalled(m) =>
            \A x \in dbTodos' \cup dbRecords' : x.id = m.id => x.user_id # m.uid
     /\ \A m \in BagToSet(net) :
          DeleteApplied(m) =>
            /\ m.id \notin {todos'[i].id : i \in 1..Len(todos')}
            /\ m.id \notin {records'[i].id : i \in 1..Len(records')}]_vars

\* the tab, signed in as one user, has called delete for a row of another
\* user that it still showed, and the row is still at the backend
C7_Witness ==
  \E m \in BagToSet(net) : \E r \in dbTodos :
    /\ m.kind = "deleteTodo" /\ m.err = NoErr
    /\ r.id = m.id /\ r.user_id # m.uid

\* the step is the hook's continuation for the failed create or update m
FailedWriteDone(m) ==
  /\ m.err # NoErr
  /\ AddTodoDone(m) \/ ToggleTodoDone(m) \/ RecordWriteDone(m)

\* C8 (as stated): when the remote call of a create or update fails, the hook
\* stores an error message (unless the failure signs the user out) and
\* re-raises the error to its caller.
C8_FailedWriteStoresAndRethrows ==
  [][\A m \in BagToSet(net) :
       FailedWriteDone(m)
         => /\ userId' = userId => error' # NoErr
            /\ outcome' = "threw"]_vars

\* C8 (amended): the usage-record hook stores the message and re-raises; the
\* task hook stores the message and returns normally.
C8_RecordHookRethrowsTaskHookReturns ==
  [][\A m \in BagToSet(net) :
       FailedWriteDone(m)
         => /\ userId' = userId => error' = m.err
            /\ m.kind \in {"addRecord", "updateRecord"} => outcome' = "threw"
            /\ m.kind \in {"addTodo", "toggleTodo"} => outcome' = "returned"]_vars

\* a create or update of a usage record was refused by the unique index:
\* the hook threw, and both the hook and the form show the message
C8_Witness ==
  /\ view = "internet"
  /\ outcome = "threw"
  /\ error = DupKey
  /\ actionError = DupKey

\* C9 (as stated): every response that reports an expired session forces a
\* sign-out.
C9_ExpiredSessionSignsOut ==
  [][\A m \in BagToSet(net) :
       (m.err = JWTExpired /\ CopiesIn(m, net') < CopiesIn(m, net))
         => userId' = NoUser]_vars

\* C10 (as stated): no insert or update request is issued for a submission
\* with a non-numeric balance, a negative balance or an empty office.
C10_InvalidSubmissionBlocked ==
  \A m \in BagToSet(net) :
    m.kind \in {"addRecord", "updateRecord"}
      => /\ m.upd.start_balance >= 0
         /\ m.upd.end_balance >= 0
         /\ trim(m.upd.office) # <<>>

\* ----------------------------------------------------------------- C11
\* the continuation of useAdminData that consumes response m
AdminResponseDone(m) ==
  \/ GetUserDone(m)
  \/ CheckAdminStatusDone(m)
  \/ FetchUsersDone(m)
  \/ FetchAuditLogsDone(m)
  \/ FetchDeletedRecordsDone(m)
  \/ FetchStatsDone(m)
  \/ RestoreInsertDone(m)
  \/ RestoreDeleteDone(m)
  \/ PermanentlyDeleteDone(m)

\* C11: every remote error raised inside a data hook is caught and leaves a
\* human-readable message in the hook's error state: when the admin data
\* hook has consumed a failed response, its error state holds a message.
C11_RemoteErrorLeavesMessage ==
  [][\A m \in BagToSet(net) :
       (m.err # NoErr /\ AdminResponseDone(m)) => admin'.error # NoErr]_vars

\* ----------------------------------------------------------------- C12
\* C12: the admin access gate only moves from checking to granted and from
\* checking to denied; in particular denied and granted are never left.
C12_GateOnlyLeavesChecking ==
  [][Gate' # Gate => (Gate = "checking" /\ Gate' \in {"granted", "denied"})]_vars

\* ----------------------------------------------------------------- C13
\* the remote call started in this step failed before reaching a table
SentRemoteFailure == \E x \in BagToSet(net' (-) net) : x.err \in ErrKinds

\* the original table of d has gained d's captured data under a new identifier
Reinserted(d) ==
  LET before == IF d.tableName = "todos" THEN dbTodos ELSE dbRecords
      after == IF d.tableName = "todos" THEN dbTodos' ELSE dbRecords'
  IN \E id \in {r.id : r \in after} :
       /\ id \notin {r.id : r \in before} \cup {d.recordData.id}
       /\ after = before \cup {[d.recordData EXCEPT !.id = id]}
       /\ after # before

\* C13: restore re-inserts the deleted row's captured data into its original
\* table under a newly assigned identifier and then removes the soft-delete
\* record; purge removes the soft-delete record only and changes no primary
\* table (each statement that reaches the backend does what is stated).
C13_RestoreReinsertsPurgeRemoves ==
  [][/\ \A d \in admin.deletedRecords :
          RestoreRecordCall(d) => (SentRemoteFailure \/ Reinserted(d))
     /\ \A m \in BagToSet(net) :
          (RestoreInsertDone(m) /\ m.err = NoErr) =>
             /\ UNCHANGED <<dbTodos, dbRecords>>
             /\ SentRemoteFailure \/ \A r \in deletedRecords' : r.id # m.id
     /\ \A d \in admin.deletedRecords :
          PermanentlyDeleteRecordCall(d.id) =>
             /\ UNCHANGED <<dbTodos, dbRecords>>
             /\ SentRemoteFailure \/ \A r \in deletedRecords' : r.id # d.id]_vars

\* ----------------------------------------------------------------- C14
\* C14: only a super-admin may toggle another profile's admin flag: a call
\* made by a caller who is not a super-admin leaves the admin flag of every
\* other user's profile as it was.
C14_OnlySuperAdminTogglesOthers ==
  [][\A auth \in Accounts :
       (CallBy(auth) /\ ~is_super_admin(auth)) =>
          \A a \in Accounts \ {auth} : profiles'[a].is_admin = profiles[a].is_admin]_vars

\* ----------------------------------------------------------------- C15
\* the audit entry appended in this step, if any
Appended == IF Len(auditLogs') > Len(auditLogs) THEN auditLogs'[Len(auditLogs')] ELSE NULL

\* the change of a tracked table in this step is captured by the appended
\* entry: the new state of an inserted row, the prior and the new state of
\* an updated row, the prior state of a deleted row
Captured(table, before, after) ==
  LET gone == before \ after
      come == after \ before
  IN \/ gone = {} /\ come = {}
     \/ /\ gone = {}
        /\ \E new \in come :
             Appended = [user_id |-> Appended.user_id, table_name |-> table,
                         record_id |-> new.id, action |-> "INSERT",
                         old_data |-> NULL, new_data |-> new]
     \/ /\ come = {}
        /\ \E old \in gone :
             Appended = [user_id |-> Appended.user_id, table_name |-> table,
                         record_id |-> old.id, action |-> "DELETE",
                         old_data |-> old, new_data |-> NULL]
     \/ \E old \in gone, new \in come :
          Appended = [user_id |-> Appended.user_id, table_name |-> table,
                      record_id |-> new.id, action |-> "UPDATE",
                      old_data |-> old, new_data |-> new]

\* C15: the audit log is append-only (every step keeps the entries it held,
\* unchanged and in place) and every insert, update and delete on todos and
\* internet_records appends an entry holding the row's prior and new state as
\* applicable (both for an update).
C15_AuditLogCapturesAndOnlyGrows ==
  [][/\ Len(auditLogs') >= Len(auditLogs)
     /\ SubSeq(auditLogs', 1, Len(auditLogs)) = auditLogs
     /\ Captured("todos", dbTodos, dbTodos')
     /\ Captured("internet_records", dbRecords, dbRecords')]_vars

\* ----------------------------------------------------------------- C16
\* the owner of a row of any table
OwnedBy(row, auth) == row.user_id = auth

\* C16: apart from the super-admin account, an authenticated caller reads,
\* inserts, updates and deletes only rows that the caller owns: the rows a
\* select returns and the rows a statement adds to or takes from a table.
C16_CallersTouchOnlyOwnRows ==
  [][\A auth \in Accounts \ {SuperAdminUser} :
       /\ \A table \in AllTables :
            Select(auth, table) => \A r \in lastCall'.rows : OwnedBy(r, auth)
       /\ (\/ \E table \in Tables, owner \in Accounts : InsertRow(auth, table, owner)
           \/ \E table \in Tables, id \in 1..MaxRows : UpdateRow(auth, table, id)
           \/ \E table \in Tables, id \in 1..MaxRows : DeleteRow(auth, table, id)
           \/ \E id \in 1..(MaxRows + 1) : DeleteDeletedRecord(auth, id)
           \/ \E target \in Accounts, flag \in BOOLEAN : UpdateProfile(auth, target, flag))
          => /\ \A r \in (dbTodos \ dbTodos') \cup (dbTodos' \ dbTodos) : OwnedBy(r, auth)
             /\ \A r \in (dbRecords \ dbRecords') \cup (dbRecords' \ dbRecords) :
                  OwnedBy(r, auth)
             /\ \A r \in deletedRecords \ deletedRecords' : OwnedBy(r, auth)
             /\ \A a \in Accounts : profiles'[a] # profiles[a] => a = auth]_vars

\* ----------------------------------------------------------------- C17
\* the step in which getInitialSession gives up restoring the session: the
\* session lookup failed and the backup is missing, stale or unreadable, or
\* the refresh made with the backup's token was answered with an error
RestoreFails ==
  \/ \E e \in LookupErrors : GetSessionFails(e)
  \/ \E m \in BagToSet(net) : BackupRefreshFails(m)

\* C17: whichever step of restoring the session fails (the session lookup
\* with a missing, stale or unreadable backup, or the refresh made with the
\* backup), the handler runs to its end and leaves the hook signed out:
\* no user, loading false, the session check marked as done.
C17_RestoreErrorsDegradeToSignedOut ==
  [][RestoreFails =>
       /\ authStep' = "done"
       /\ authState'.user = NoUser
       /\ ~authState'.loading
       /\ authState'.sessionChecked
       /\ authState'.error # NoErr]_vars

\* the refresh made with the backup failed after the listener had set a
\* user, and the hook is signed out with the backup gone
C17_Witness ==
  /\ authStep = "done"
  /\ authState.error = SessionExpired
  /\ authState.user = NoUser
  /\ ~authState.loading
  /\ backup = NoBackup
  /\ lastEvent.event = "SIGNED_IN"

\* ----------------------------------------------------------------- C18
\* the hook's user and the backup are those of event e
Mirrors(e) ==
  CASE e.event = "SIGNED_OUT" -> authState.user = NoUser /\ backup = NoBackup
    [] e.event \in {"SIGNED_IN", "TOKEN_REFRESHED"} ->
         /\ authState.user = e.session.user
         /\ backup.item = "json"
         /\ backup.session = e.session
    [] OTHER -> TRUE

\* C18: once the listener has been handed every event, the hook's user and
\* the backup are those of the last event: no user and no backup after a
\* sign-out, the event's session after a sign-in or a token refresh,
\* however the events interleave with the initial session check.
C18_EventsMirrored == events = <<>> => Mirrors(lastEvent)

\* ----------------------------------------------------------------- C19
\* refresh requests of the timer in flight
TimerRefreshes(bag) ==
  {m \in BagToSet(bag) : m.kind = "refreshSession" /\ m.via = "timer"}

\* the step sends a refresh request of the timer
RefreshRequested ==
  \E m \in TimerRefreshes(net') : CopiesIn(m, net') > CopiesIn(m, net)

\* the client's token is still valid and expires in less than the threshold
ExpiresSoon(now) ==
  /\ client # NoSession
  /\ client.expires_at - now > 0
  /\ client.expires_at - now < RefreshThreshold

ClassesOf(todo, now) == {f \in DateFilters : matchesDateFilter(todo, f, now)}

\* C20: under a fixed now every task falls into exactly one of the classes
\* all, today, tomorrow, week, overdue and future: once a date filter has
\* been chosen and applied to the task, exactly one of the six filters
\* keeps the task.
C20_ExactlyOneClass ==
  (view = "filter" /\ dateFilter # "all")
    => Cardinality(ClassesOf(filterTodo, filterNow)) = 1

\* ----------------------------------------------------------------- C21
\* C21: a task whose completion flag is true is never classified as
\* overdue, whatever its schedule, due date or due time: the overdue filter
\* does not keep it and its item's overdue indicator is off.
C21_CompletedNeverOverdue ==
  filterTodo.completed =>
    /\ ~matchesDateFilter(filterTodo, "overdue", filterNow)
    /\ ~isOverdue(filterTodo, filterNow)
    /\ (view = "filter" /\ dateFilter = "overdue") => ~shown
    /\ ~overdue

\* a completed task scheduled in the past, dropped by the overdue filter
\* after its item was rendered without the indicator
C21_Witness ==
  /\ view = "filter"
  /\ filterTodo.completed
  /\ filterTodo.scheduledFor # NoDate
  /\ filterTodo.scheduledFor < filterNow.at
  /\ dateFilter = "overdue"
  /\ ~shown
  /\ ~overdue

\* ----------------------------------------------------------------- C22
\* how a task is classified: which date filters keep it, and whether its
\* item shows the overdue indicator
ClassVector(todo, now) ==
  [filters |-> {f \in DateFilters : matchesDateFilter(todo, f, now)},
   indicator |-> isOverdue(todo, now)]

\* an explicit schedule alone decides the class
ScheduleDecides ==
  filterTodo.scheduledFor # NoDate =>
    \A other \in FilterTodos :
      (other.scheduledFor = filterTodo.scheduledFor
         /\ other.completed = filterTodo.completed)
        => ClassVector(other, filterNow) = ClassVector(filterTodo, filterNow)

\* without a schedule, the due date and due time decide it
DueDateDecides ==
  (filterTodo.scheduledFor = NoDate /\ filterTodo.dueDate # NoDate) =>
    \A other \in FilterTodos :
      (other.scheduledFor = NoDate /\ other.dueDate = filterTodo.dueDate
         /\ other.dueTime = filterTodo.dueTime
         /\ other.completed = filterTodo.completed)
        => ClassVector(other, filterNow) = ClassVector(filterTodo, filterNow)

\* the task has a due time and nothing else
TimeOnly(todo) ==
  todo.scheduledFor = NoDate /\ todo.dueDate = NoDate /\ todo.dueTime # NoDate

\* a time without a date means today at that time
TimeOnlyIsToday ==
  TimeOnly(filterTodo) =>
    /\ (view = "filter" /\ dateFilter = "today") => shown
    /\ (view = "filter" /\ dateFilter \in {"tomorrow", "future"}) => ~shown
    /\ isOverdue(filterTodo, filterNow)
         = (~filterTodo.completed /\ filterNow.at > SetHours(filterNow.at, filterTodo.dueTime))

\* C22: the class of a task follows a fixed precedence: a schedule, when
\* present, alone decides it; otherwise the due date with the due time
\* decides it; otherwise a due time alone is read as today at that time.
C22_FixedPrecedence == ScheduleDecides /\ DueDateDecides /\ TimeOnlyIsToday

\* the precedence among the fields that are present
HigherFieldDecides == ScheduleDecides /\ DueDateDecides

\* ----------------------------------------------------------------- C23
\* the task with its completion flag and timestamp cleared
Reopened(t) == [t EXCEPT !.completed = FALSE, !.completedAt = NoTime]
ReopenedRow(r) == [r EXCEPT !.completed = FALSE, !.completed_at = NoTime]

\* local state changes at the entries of task id only, which are reopened
OnlyReopens(id) ==
  /\ Len(todos') = Len(todos)
  /\ \A i \in 1..Len(todos) :
       todos'[i] = IF todos[i].id = id THEN Reopened(todos[i]) ELSE todos[i]

\* C23: toggling a completed task back to incomplete clears its completion
\* timestamp and leaves every other field of the task and every other task
\* unchanged: at the backend when the call is made, in local state when its
\* response is applied, and in the localStorage variant at once.
C23_ReopenChangesOnlyCompletion ==
  [][/\ \A id \in 1..MaxRows, now \in Times :
          (ToggleTodoCall(id, now) /\ FindTodo(id).completed) =>
            /\ todos' = todos
            /\ \A r \in dbTodos :
                 IF r.id = id THEN r \in dbTodos' \/ ReopenedRow(r) \in dbTodos'
                 ELSE r \in dbTodos'
            /\ Cardinality(dbTodos') = Cardinality(dbTodos)
     /\ \A m \in BagToSet(net) :
          (ToggleTodoDone(m) /\ m.err = NoErr /\ ~m.upd.completed) =>
            OnlyReopens(m.id) /\ dbTodos' = dbTodos
     /\ \A id \in 1..MaxRows, now \in Times :
          (LocalToggleTodo(id, now) /\ FindTodo(id).completed) => OnlyReopens(id)]_vars

\* the call that reopens a completed task has cleared the row's flag and
\* timestamp at the backend, and its response is on the way to the tab that
\* still shows the task completed
C23_Witness ==
  \E m \in BagToSet(net) : \E r \in dbTodos : \E i \in 1..Len(todos) :
    /\ m.kind = "toggleTodo" /\ m.err = NoErr /\ ~m.upd.completed
    /\ r.id = m.id /\ ~r.completed /\ r.completed_at = NoTime
    /\ todos[i].id = m.id /\ todos[i].completed /\ todos[i].completedAt # NoTime

\* ----------------------------------------------------------------- C24
\* the two records are counted under one key of the breakdown
SameGroup(recs, Key(_, _), i, j) == Key(recs, i) = Key(recs, j)

\* C24: records whose offices differ only in letter case are one group in
\* every office breakdown: the monitoring page's, and the export page's
\* that the exported workbook lists; so each breakdown has one key per
\* office, whatever the case it was typed in.
C24_OfficeGroupsIgnoreCase ==
  /\ \A i, j \in 1..Len(records) :
       officeNamesMatch(records[i].office, records[j].office) =>
         /\ SameGroup(records, OfficeKey, i, j)
         /\ SameGroup(records, FilteredOfficeKey, i, j)
  /\ DOMAIN filteredOfficeBreakdown(records) = DOMAIN officeBreakdown(records)

\* ----------------------------------------------------------------- C25
\* C25: in the seven-day progress data the percentage of every day is a
\* number between 0 and 100, never NaN, and the percentage of a day with no
\* task is exactly 0.
C25_PercentageIsNumber ==
  \A k \in 1..Len(progressData) :
    /\ ~isNaN(progressData[k].percentage)
    /\ progressData[k].percentage.val \in 0..100
    /\ progressData[k].total = 0 => progressData[k].percentage = Num(0)

\* the chart was computed for a list with a day without tasks and a day on
\* which some but not all tasks are completed
C25_Witness ==
  /\ view = "progress"
  /\ \E k \in 1..Len(progressData) :
       progressData[k].total = 0 /\ progressData[k].percentage = Num(0)
  /\ \E k \in 1..Len(progressData) :
       /\ progressData[k].total > 1
       /\ progressData[k].completed = 1
       /\ progressData[k].percentage.val \in 1..99

\* ----------------------------------------------------------------- C26
\* C26: whenever the hook's user id is none, the local collection of the task
\* hook and that of the usage-record hook are empty; no row of the user who
\* signed out remains in local state.
C26_SignedOutMeansEmpty ==
  /\ view = "tasks" /\ userId = NoUser => todos = <<>>
  /\ view = "internet" /\ userId = NoUser => records = <<>>

\* the usage-record half alone
SignedOutRecordsEmpty ==
  view = "internet" /\ userId = NoUser => records = <<>>

\* ----------------------------------------------------------------- C27
\* C27: a hook's local collection never holds two entries with the same id,
\* however the response of a create call (which prepends the returned row)
\* interleaves with a refetch triggered by the realtime callback (which
\* replaces the collection).
DistinctIds(list) ==
  \A i, j \in 1..Len(list) : list[i].id = list[j].id => i = j

C27_LocalIdsDistinct ==
  /\ view = "tasks" => DistinctIds(todos)
  /\ view = "internet" => DistinctIds(records)

\* each hook alone
TodoIdsDistinct == view = "tasks" => DistinctIds(todos)
RecordIdsDistinct == view = "internet" => DistinctIds(records)

\* ----------------------------------------------------------------- C28
\* the backend's row of task id
TodoRowOf(rows, id) == CHOOSE r \in rows : r.id = id

\* the response of a successful toggle of task id is in flight, not yet
\* applied to local state, and the backend row is still the one it returned
FirstToggleInFlight(id, first) ==
  /\ first \in BagToSet(net)
  /\ first.kind = "toggleTodo"
  /\ first.id = id
  /\ first.err = NoErr
  /\ first.data[1] \in dbTodos

\* this step is a toggle call of task id that the backend carried out
ToggleSucceeds(id) ==
  /\ \E now \in Times : ToggleTodoCall(id, now)
  /\ \E m \in BagToSet(net') :
       /\ m.kind = "toggleTodo" /\ m.id = id /\ m.err = NoErr
       /\ CopiesIn(m, net') > CopiesIn(m, net)

\* C28: two toggle calls on the same task leave its completion flag equal to
\* its original value, also when the second call is issued before the first
\* call's response has been applied to local state: the second call undoes
\* at the backend what the first one did.
C28_SecondToggleUndoesFirst ==
  [][\A id \in 1..MaxRows : \A first \in BagToSet(net) :
       FirstToggleInFlight(id, first) /\ ToggleSucceeds(id)
         => TodoRowOf(dbTodos', id).completed = ~first.data[1].completed]_vars

\* every toggle call issued while no toggle of the task is in flight flips
\* the backend's flag of a row the tab has seen as it is
ToggleFlipsWhenSettled ==
  [][\A id \in 1..MaxRows :
       /\ ToggleSucceeds(id)
       /\ \A m \in BagToSet(net) : m.kind # "toggleTodo"
       /\ FindTodo(id).completed = TodoRowOf(dbTodos, id).completed
       => TodoRowOf(dbTodos', id).completed = ~TodoRowOf(dbTodos, id).completed]_vars

\* ----------------------------------------------------------------- C29
\* the captured data of soft-delete record d is a row of its primary table
\* (under whatever id the insert gave it)
InPrimary(tasks, usage, d) ==
  \E r \in (IF d.table_name = "todos" THEN tasks ELSE usage) :
    [r EXCEPT !.id = d.record_data.id] = d.record_data

\* the soft-delete record is in the deleted-records table
InDeleted(deleted, d) == \E x \in deleted : x.id = d.id

\* this step ends the remote steps of the restore of soft-delete record d:
\* the insert was answered with an error, or the delete was answered
RestoreEnds(d) ==
  \E m \in BagToSet(net) :
    /\ m.id = d.id
    /\ \/ RestoreInsertDone(m) /\ m.err # NoErr
       \/ RestoreDeleteDone(m)

\* the step handles the error answer to the delete of the soft-delete record
DeleteStepFails(d) ==
  \E m \in BagToSet(net) :
    m.id = d.id /\ m.kind = "restoreDelete" /\ m.err # NoErr /\ RestoreDeleteDone(m)

\* nobody else has removed the row meanwhile: its data is still held
StillHeld(d) ==
  InPrimary(dbTodos, dbRecords, d) \/ InDeleted(deletedRecords, d)

\* C29: restore conserves the deleted row: however a restore call ends (the
\* insert fails, the delete of the soft-delete record fails, or both
\* succeed), the captured data is in exactly one of its primary table and
\* the deleted-records table.
C29_RestoreConservesRow ==
  [][\A d \in InitialDeleted :
       StillHeld(d) /\ RestoreEnds(d)
         => (InPrimary(dbTodos', dbRecords', d) <=> ~InDeleted(deletedRecords', d))]_vars

\* the same, for restore calls whose delete step does not fail
RestoreConservesUnlessDeleteFails ==
  [][\A d \in InitialDeleted :
       StillHeld(d) /\ RestoreEnds(d) /\ ~DeleteStepFails(d)
         => (InPrimary(dbTodos', dbRecords', d) <=> ~InDeleted(deletedRecords', d))]_vars

\* ----------------------------------------------------------------- C30
\* this step ends a submission of the admin login form in which user u
\* authenticated
SubmissionEnds(u) ==
  /\ login.step # "idle"
  /\ login'.step = "idle"
  /\ login.authed = u

\* C30: on the admin login page a user who authenticates successfully but
\* whose profile lacks the admin flag is signed out again, and the success
\* callback is never invoked for a user without the admin flag.
C30_NonAdminSignedOut ==
  [][\A u \in Accounts :
       SubmissionEnds(u) /\ ~profiles[u].is_admin
         => client'.user # u /\ ~login'.onSuccess]_vars

\* the second half alone: onSuccess() only for a user with the admin flag
OnSuccessOnlyForAdmins ==
  login.onSuccess => login.user # NoUser /\ profiles[login.user].is_admin

\* the first half, when the profile lookup and the sign-out are both answered
\* without an error
SignedOutWhenCallsSucceed ==
  [][\A u \in Accounts :
       /\ SubmissionEnds(u) /\ ~profiles[u].is_admin
       /\ \E m \in BagToSet(net) : LoginSignOutDone(m) /\ m.err = NoErr
       => client'.user # u /\ ~login'.onSuccess]_vars


====
